---- MODULE Spec2Model ----
\* Model of the CloudStack node-group scaler of tsuru/autoscaler:
\* csScaler (createVM / destroyVM / scaleUp), cloudstackManager.scaleUp with
\* refreshNodeGroupVms, csNodeGroup.TargetSize / IncreaseSize / DeleteNodes,
\* cloudstackManager.Refresh and projectCache, run against a remote CloudStack
\* API whose calls may fail.
EXTENDS Integers, Sequences, FiniteSets, TLC

\* ---------------------------------------------------------------- bounds
MaxVms == 3          \* instance ids the remote API hands out in one behaviour
MaxMinSize == 2      \* largest minNodes of the group
MaxMaxSize == 2      \* largest maxNodes of the group
MaxDelta == 2        \* largest delta handed to IncreaseSize
MaxInitVms == 1      \* instances bound to the group after discovery
MaxNodes == 2        \* nodes handed to one DeleteNodes
MaxBound == 2        \* instances bound to the group before its first DeleteNodes
MaxTime == 3         \* ticks of the clock in one behaviour
MaxProjects == 1     \* projects the remote API knows
MaxSpecs == 2        \* discovery specs of the configuration
MaxAsps == 2         \* AutoScaleVmProfiles the remote API knows
MaxGroups == 2       \* groups installed when NodeGroupForNode is called

\* ---------------------------------------------------------------- state
VARIABLES
    vmProfile,   \* csNodeGroup.vmProfile: [minSize, maxSize]
    vms,         \* csNodeGroup.vms: the bound instance list (sequence of ids)
    live,        \* remote: ids of the instances that exist
    tagged,      \* remote: ids of the instances carrying the nodeGroupName tag
    nextId,      \* remote: the first instance id no earlier scale-up was given
    lastId,      \* remote: the last instance id handed out in this behaviour
    pc,          \* position of the calling goroutine
    frame,       \* the node-group method whose scale-up is running
    delta,       \* argument of the running IncreaseSize
    count,       \* argument of the running csScaler.scaleUp
    tasks,       \* the goroutines of the running scaleUp: [pc, vm, err]
    wg,          \* sync.WaitGroup counter
    errCh,       \* the buffered channel of results
    suErr,       \* value returned by csScaler.scaleUp
    tsRet,       \* value returned by the last TargetSize: [size, err]
    ret,         \* value returned by the last node-group operation
    calls,       \* remote calls of the running / last scale-up, per goroutine
                 \* (index 0: the calls of the calling goroutine in the operation)
    issued,      \* number of deploy / tag / destroy calls of the operation
    batch,       \* scale-ups started by the running / last operation
    call0,       \* bound list and remote state when the operation was called
    nodes,       \* argument of the running / last DeleteNodes
    nodeAt,      \* position of the loop of DeleteNodes in nodes
    answer,      \* the last call of a method that returns in one step
                 \* (destroyVM, Nodes, DecreaseTargetSize, removeVM,
                 \* NodeGroupForNode):
                 \* its argument, the value and error returned, its remote
                 \* calls, and the group state it was called on
    projects,    \* cloudstackManager.projects: the projectCache
                 \* [projects, maxAge, lastUpdated, useProjects]
    now,         \* the clock time.Now() reads
    refreshed,   \* the last projectCache.refresh: whether it issued the list
                 \* call, what it returned, and the cache it was called on
    visited,     \* the last projectCache.forEach: the partitions its function
                 \* was called with, in order, and what forEach returned
    labelConfig, \* cloudstackManager.labelConfig: the selector sets
    nodeGroups,  \* cloudstackManager.nodeGroups: the installed groups
    world,       \* what the remote API answers during the last Refresh
    returned,    \* the last Refresh: its error, its remote calls, and the
                 \* groups installed when it was called
    checked      \* the last validASP: its argument and its result

\* the variables of the node group and of its scale-up
groupVars == <<vmProfile, vms, live, tagged, nextId, lastId, pc, frame, delta, count, tasks,
               wg, errCh, suErr, tsRet, ret, calls, issued, batch, call0, nodes, nodeAt,
               answer>>

\* the variables of the project cache
cacheVars == <<projects, now, refreshed, visited>>

\* the variables of the discovery of the groups
discoveryVars == <<labelConfig, nodeGroups, world, returned, checked>>

vars == <<groupVars, cacheVars, discoveryVars>>

\* the variables no step of a scale-up changes
idleVars == <<nodes, nodeAt, answer, cacheVars, discoveryVars>>

\* ---------------------------------------------------------------- errors
\* An error is the sequence of the pieces of its message; nil is Nil.
Nil == <<>>

\* the empty instance id ""
NoId == 0

\* (*cloudstack.DeployVirtualMachineResponse)(nil)
NilResp == [isNil |-> TRUE, Id |-> NoId]

RECURSIVE Join(_, _)
\* strings.Join(elems, sep)
Join(elems, sep) ==
    IF Len(elems) = 0 THEN <<>>
    ELSE IF Len(elems) = 1 THEN Head(elems)
    ELSE Head(elems) \o <<sep>> \o Join(Tail(elems), sep)

\* strings.Contains(s, sub)
Contains(s, sub) ==
    \E k \in 0..(Len(s) - Len(sub)) : SubSeq(s, k + 1, k + Len(sub)) = sub

\* fmt.Sprintf(notFoundPattern, id)
notFoundPattern(id) ==
    <<"Invalid parameter id value=", ToString(id),
      " due to incorrect long value format, or entity does not exist">>

isCSErrorNotFound(err, id) ==
    IF err = Nil THEN FALSE ELSE Contains(err, notFoundPattern(id))

\* ---------------------------------------------------------------- remote API
\* Errors the remote API answers with.
DeployErr(i) == <<"deploy err ", ToString(i)>>
TagErr(id) == <<"tag err ", ToString(id)>>
DestroyErr(id) == <<"destroy err ", ToString(id)>>
NotFoundErr(id) ==
    <<"CloudStack API error 431 (CSExceptionErrorCode: 9999): Unable to execute API command destroyvirtualmachine due to invalid value. ">>
    \o notFoundPattern(id)
    \o <<" or due to incorrect parameter annotation for the field in api cmd class.">>
ListErr == <<"list err">>
OfferingErr == <<"offering err">>
ZoneErr == <<"zone err">>

\* The response of DeployVirtualMachine for its outcomes: success (ok);
\* failure without a response (errNil); failure with a response that has no id
\* (errEmptyId); failure (timeout of the async job) with an id whose instance
\* exists (errIdLive); the same with an instance that does not (errIdGone).
DeployResp(o, id) ==
    IF o = "errNil" THEN NilResp
    ELSE IF o = "errEmptyId" THEN [isNil |-> FALSE, Id |-> NoId]
    ELSE [isNil |-> FALSE, Id |-> id]

DeployCreates(o) == o \in {"ok", "errIdLive"}

\* Outcomes of DestroyVirtualMachine(id): an existing instance is destroyed or
\* the call fails; a missing instance yields the not-found error or another.
DestroyOutcomes(id) == IF id \in live THEN {"ok", "err"} ELSE {"notfound", "err"}

DestroyRemoteErr(o, id) ==
    IF o = "ok" THEN Nil
    ELSE IF o = "notfound" THEN NotFoundErr(id)
    ELSE DestroyErr(id)

RECURSIVE SortedSeq(_)
\* ListVirtualMachines answers with the instances in id order
SortedSeq(S) ==
    IF S = {} THEN <<>>
    ELSE LET m == CHOOSE x \in S : \A y \in S : x <= y
         IN <<m>> \o SortedSeq(S \ {m})

ListVirtualMachines == SortedSeq(live \cap tagged)

Range(s) == {s[k] : k \in 1..Len(s)}

Call(op, id, err) == [op |-> op, id |-> id, err |-> err]

NoneIssued == [deploy |-> 0, tag |-> 0, destroy |-> 0]

Max(a, b) == IF a >= b THEN a ELSE b

\* the remote API has ids left for n more instances
CanDeploy(n) == nextId + n - 1 <= lastId


\* ---------------------------------------------------------------- csScaler
\* destroyVM handing every remote error to the caller
destroyVMUnforgiving(vmID, rerr) == rerr

\* destroyVM: the value returned for the remote answer rerr
destroyVM(vmID, rerr) == IF isCSErrorNotFound(rerr, vmID) THEN Nil ELSE rerr

\* createVMAfterDeploy rolling back a failed deploy that gave no id too
createVMAfterDeployAnyId(vm, err) == IF err # Nil THEN "destroyCreate" ELSE "tag"

\* createVM after DeployVirtualMachine answered (vm, err): where it goes next
createVMAfterDeploy(vm, err) ==
    IF err # Nil
    THEN IF ~vm.isNil /\ vm.Id # NoId THEN "destroyCreate" ELSE "return"
    ELSE "tag"

\* createErrAfterDestroy with the two errors in the opposite order
createErrAfterDestroySwapped(destroyErr, err) ==
    IF destroyErr # Nil
    THEN <<"unable to destroy cloudstack VM after error creating: ">> \o err
         \o <<" - original error: ">> \o destroyErr
    ELSE err

\* createVM: the error returned after the destroy that follows a failed deploy
createErrAfterDestroy(destroyErr, err) ==
    IF destroyErr # Nil
    THEN <<"unable to destroy cloudstack VM after error creating: ">> \o destroyErr
         \o <<" - original error: ">> \o err
    ELSE err

\* createVMAfterTag without the rollback of a failed tag
createVMAfterTagNoRollback(err) == "return"

\* createVMAfterTag rolling back whatever CreateTags answered
createVMAfterTagAlways(err) == "destroyTag"

\* createVM's deferred function: whether the rollback runs after CreateTags
createVMAfterTag(err) == IF err = Nil THEN "return" ELSE "destroyTag"

\* tagErrAfterDestroy dropping a failed rollback
tagErrAfterDestroyDropped(destroyErr, err) == err

\* createVM's deferred function: the error returned after the rollback
tagErrAfterDestroy(destroyErr, err) ==
    IF destroyErr # Nil
    THEN <<"unable to destroy cloudstack VM after tagging error: ">> \o destroyErr
         \o <<" - original error: ">> \o err
    ELSE err

\* errorMsgs stopping at the first error
errorMsgsFirst(ch) ==
    LET all == SelectSeq(ch, LAMBDA e : e # Nil)
    IN IF Len(all) > 1 THEN <<Head(all)>> ELSE all

\* scaleUp: the error messages collected from the closed channel
errorMsgs(ch) == SelectSeq(ch, LAMBDA e : e # Nil)

\* scaleUpResult tolerating a single failure
scaleUpResultTolerant(msgs) ==
    IF Len(msgs) > 1 THEN <<"error creating VMs: ">> \o Join(msgs, " - ") ELSE Nil

\* scaleUp: the value returned for the collected messages
scaleUpResult(msgs) ==
    IF Len(msgs) > 0 THEN <<"error creating VMs: ">> \o Join(msgs, " - ") ELSE Nil

\* WaitDone returning as soon as one goroutine is done
WaitDoneFirst(w) == w <= 1

\* scaleUp: wg.Wait() returns
WaitDone(w) == w = 0

\* scaleUp(vmp, n): the channel is made and the n goroutines are started
\* (b: number of this scale-up in the operation, main: calls issued so far
\* by the calling goroutine)
StartScaleUp(n, fr, b, main) ==
    /\ count' = n
    /\ tasks' = [i \in 1..n |-> [pc |-> "deploy", vm |-> NilResp, err |-> Nil]]
    /\ wg' = n
    /\ errCh' = <<>>
    /\ suErr' = Nil
    /\ batch' = b
    /\ calls' = [t \in 0..n |-> IF t = 0 THEN main ELSE <<>>]
    /\ frame' = fr
    /\ pc' = "scaleUp"

\* a goroutine of scaleUp: s.client.DeployVirtualMachine(&deploy) and the branch on its answer
DeployVirtualMachine(i, o) ==
    /\ i \in 1..count
    /\ tasks[i].pc = "deploy"
    /\ LET id == nextId + i - 1
           vm == DeployResp(o, id)
           err == IF o = "ok" THEN Nil ELSE DeployErr(i)
           next == createVMAfterDeploy(vm, err)
       IN /\ live' = IF DeployCreates(o) THEN live \cup {id} ELSE live
          /\ calls' = [calls EXCEPT ![i] = Append(@, Call("deploy", vm.Id, err))]
          /\ issued' = [issued EXCEPT !.deploy = @ + 1]
          /\ tasks' = [tasks EXCEPT ![i] =
                 [pc |-> IF next = "return" THEN "send" ELSE next, vm |-> vm, err |-> err]]
    /\ UNCHANGED <<vmProfile, lastId, vms, tagged, nextId, pc, frame, delta, count, wg, errCh,
                   suErr, tsRet, ret, batch, call0>>
    /\ UNCHANGED idleVars

\* a goroutine of scaleUp: s.client.CreateTags(&tags) and the deferred check
CreateTags(i, o) ==
    /\ i \in 1..count
    /\ tasks[i].pc = "tag"
    /\ LET id == tasks[i].vm.Id
           err == IF o = "ok" THEN Nil ELSE TagErr(id)
           next == createVMAfterTag(err)
       IN /\ tagged' = IF o = "ok" THEN tagged \cup {id} ELSE tagged
          /\ calls' = [calls EXCEPT ![i] = Append(@, Call("tag", id, err))]
          /\ issued' = [issued EXCEPT !.tag = @ + 1]
          /\ tasks' = [tasks EXCEPT ![i].pc = IF next = "return" THEN "send" ELSE next,
                                    ![i].err = err]
    /\ UNCHANGED <<vmProfile, lastId, vms, live, nextId, pc, frame, delta, count, wg, errCh,
                   suErr, tsRet, ret, batch, call0>>
    /\ UNCHANGED idleVars

\* a goroutine of scaleUp: s.destroyVM(vm.Id) after a failed deploy or a failed tag
DestroyVirtualMachine(i, o) ==
    /\ i \in 1..count
    /\ tasks[i].pc \in {"destroyCreate", "destroyTag"}
    /\ LET id == tasks[i].vm.Id
           rerr == DestroyRemoteErr(o, id)
           destroyErr == destroyVM(id, rerr)
       IN /\ o \in DestroyOutcomes(id)
          /\ live' = IF o = "ok" THEN live \ {id} ELSE live
          /\ tagged' = IF o = "ok" THEN tagged \ {id} ELSE tagged
          /\ calls' = [calls EXCEPT ![i] = Append(@, Call("destroy", id, rerr))]
          /\ issued' = [issued EXCEPT !.destroy = @ + 1]
          /\ tasks' = [tasks EXCEPT ![i].pc = "send",
                 ![i].err = IF tasks[i].pc = "destroyCreate"
                            THEN createErrAfterDestroy(destroyErr, tasks[i].err)
                            ELSE tagErrAfterDestroy(destroyErr, tasks[i].err)]
    /\ UNCHANGED <<vmProfile, lastId, vms, nextId, pc, frame, delta, count, wg, errCh,
                   suErr, tsRet, ret, batch, call0>>
    /\ UNCHANGED idleVars

\* a goroutine of scaleUp: errCh <- s.createVM(...) and the deferred wg.Done()
TaskSend(i) ==
    /\ i \in 1..count
    /\ tasks[i].pc = "send"
    /\ Len(errCh) < count
    /\ errCh' = Append(errCh, tasks[i].err)
    /\ wg' = wg - 1
    /\ tasks' = [tasks EXCEPT ![i].pc = "done"]
    /\ UNCHANGED <<vmProfile, lastId, vms, live, tagged, nextId, pc, frame, delta, count,
                   suErr, tsRet, ret, calls, issued, batch, call0>>
    /\ UNCHANGED idleVars

\* scaleUp: wg.Wait(), close(errCh), the drain of the channel and the return
scaleUpReturn ==
    /\ pc = "scaleUp"
    /\ WaitDone(wg)
    /\ suErr' = scaleUpResult(errorMsgs(errCh))
    /\ errCh' = <<>>
    /\ pc' = "manager"
    /\ UNCHANGED <<vmProfile, lastId, vms, live, tagged, nextId, frame, delta, count, tasks,
                   wg, tsRet, ret, calls, issued, batch, call0>>
    /\ UNCHANGED idleVars

\* what is recorded of a call that returns in one step (gone: the instances
\* earlier destroyVM calls have destroyed)
Answer(op, arg, value, err, log, gone) ==
    [op |-> op, arg |-> arg, value |-> value, err |-> err, calls |-> log,
     gone |-> gone, before |-> [vms |-> vms, nodeGroups |-> nodeGroups]]

\* no such call was made yet
NoAnswer ==
    [op |-> "none", arg |-> <<>>, value |-> <<>>, err |-> Nil, calls |-> <<>>,
     gone |-> {}, before |-> [vms |-> <<>>, nodeGroups |-> <<>>]]

\* s.destroyVM(vmID) called on its own, the remote API answering o
\* (notfoundOther: the not-found error of another instance)
DestroyVM(vmID, o) ==
    /\ pc = "idle"
    /\ o \in DestroyOutcomes(vmID) \cup {"notfoundOther"}
    /\ LET rerr == IF o = "notfoundOther" THEN NotFoundErr(vmID + 1)
                   ELSE DestroyRemoteErr(o, vmID)
       IN answer' = Answer("destroyVM", <<vmID>>, <<>>, destroyVM(vmID, rerr),
                           <<Call("destroy", vmID, rerr)>>,
                           IF answer.op = "destroyVM" /\ answer.calls[1].err = Nil
                           THEN answer.gone \cup {answer.arg[1]} ELSE answer.gone)
    /\ live' = IF o = "ok" THEN live \ {vmID} ELSE live
    /\ tagged' = IF o = "ok" THEN tagged \ {vmID} ELSE tagged
    /\ UNCHANGED <<vmProfile, lastId, vms, nextId, pc, frame, delta, count, tasks, wg, errCh,
                   suErr, tsRet, ret, calls, issued, batch, call0, nodes, nodeAt>>
    /\ UNCHANGED cacheVars
    /\ UNCHANGED discoveryVars

\* ---------------------------------------------------------------- cloudstackManager
\* refreshNodeGroupVms: the error returned for the outcome of its three calls
refreshErr(o) ==
    IF o = "listErr" THEN ListErr
    ELSE IF o = "offeringErr" THEN OfferingErr
    ELSE IF o = "zoneErr" THEN ZoneErr
    ELSE Nil

\* refreshVms never taking the listing over
refreshVmsKept(o, cur) == cur

\* refreshNodeGroupVms: ng.vms after the call (assigned right after the listing)
refreshVms(o, cur) == IF o = "listErr" THEN cur ELSE ListVirtualMachines

\* refreshNodeGroupVms: the remote calls it issues
refreshCalls(o) ==
    <<Call("list", NoId, IF o = "listErr" THEN ListErr ELSE Nil)>>
    \o (IF o = "listErr" THEN <<>>
        ELSE <<Call("offering", NoId, IF o = "offeringErr" THEN OfferingErr ELSE Nil)>>)
    \o (IF o \in {"listErr", "offeringErr"} THEN <<>>
        ELSE <<Call("zone", NoId, IF o = "zoneErr" THEN ZoneErr ELSE Nil)>>)

\* cloudstackManager.scaleUp: whether it goes on to refreshNodeGroupVms
managerRefreshes(err) == err = Nil

\* ---------------------------------------------------------------- csNodeGroup
MinSize == vmProfile.minSize

MaxSize == vmProfile.maxSize

\* toMinSize ignoring the instances already bound
toMinSizeWhole(targetSize, minSize) == IF targetSize < minSize THEN minSize ELSE 0

\* TargetSize: the number of units of the self-healing scale-up
toMinSize(targetSize, minSize) == minSize - targetSize

\* TargetSizeErr handing the scale-up error to the caller
TargetSizeErrPropagated(err) == err

\* TargetSize: the error it returns when the scale-up returned err
TargetSizeErr(err) == Nil

\* deltaRejected letting a delta of 0 through
deltaRejectedNegative(d) == d < 0

\* IncreaseSize: the check of its argument
deltaRejected(d) == d <= 0

\* tooLarge comparing the bound size without delta
tooLargeWithoutDelta(currentSize, d, max) == currentSize > max

\* IncreaseSize: the check of the size asked for against MaxSize
tooLarge(currentSize, d, max) == currentSize + d > max

DeltaErr(d) == <<"delta must be positive, have: ", ToString(d)>>

TooLargeErr(currentSize, targetSize, max) ==
    <<"size increase is too large. current: ", ToString(currentSize),
      " desired: ", ToString(targetSize), " max: ", ToString(max)>>

Returned(op, size, err) == [op |-> op, size |-> size, err |-> err]

\* no operation has returned yet
NoReturn == Returned("none", 0, Nil)

\* TargetSize has not returned yet
NoTargetSize == [size |-> 0 - 1, err |-> Nil]

\* the operation returns without having started a scale-up
NoScaleUp ==
    /\ count' = 0
    /\ tasks' = <<>>
    /\ wg' = 0
    /\ errCh' = <<>>
    /\ suErr' = Nil
    /\ batch' = 0
    /\ calls' = [t \in 0..0 |-> <<>>]
    /\ frame' = "none"
    /\ pc' = "idle"

\* the operation returns after a scale-up (main: calls of the calling goroutine)
Finish(main) ==
    /\ calls' = [calls EXCEPT ![0] = main]
    /\ frame' = "none"
    /\ pc' = "idle"
    /\ nextId' = nextId + count
    /\ UNCHANGED <<count, tasks, wg, errCh, suErr, batch>>

\* csNodeGroup.TargetSize(), up to its return or to the start of the scale-up
TargetSize ==
    /\ pc = "idle"
    /\ CanDeploy(Max(toMinSize(Len(vms), MinSize), 0))
    /\ call0' = [vms |-> vms, lt |-> live \cap tagged]
    /\ issued' = NoneIssued
    /\ delta' = 0
    /\ LET targetSize == Len(vms)
       IN IF targetSize < MinSize
          THEN /\ StartScaleUp(toMinSize(targetSize, MinSize), "TargetSize", 1, <<>>)
               /\ tsRet' = NoTargetSize
               /\ ret' = NoReturn
          ELSE /\ tsRet' = [size |-> targetSize, err |-> Nil]
               /\ ret' = Returned("TargetSize", targetSize, Nil)
               /\ NoScaleUp
    /\ UNCHANGED <<vmProfile, lastId, vms, live, tagged, nextId>>
    /\ UNCHANGED idleVars

\* csNodeGroup.IncreaseSize(d), up to its return or to the start of a scale-up
IncreaseSize(d) ==
    /\ pc = "idle"
    /\ CanDeploy(Max(toMinSize(Len(vms), MinSize), 0) + Max(d, 0))
    /\ call0' = [vms |-> vms, lt |-> live \cap tagged]
    /\ issued' = NoneIssued
    /\ delta' = d
    /\ IF deltaRejected(d)
       THEN /\ ret' = Returned("IncreaseSize", Len(vms), DeltaErr(d))
            /\ NoScaleUp
            /\ tsRet' = NoTargetSize
       ELSE LET currentSize == Len(vms)
            IN IF currentSize < MinSize
               THEN /\ StartScaleUp(toMinSize(currentSize, MinSize),
                                    "IncreaseSize.TargetSize", 1, <<>>)
                    /\ tsRet' = NoTargetSize
                    /\ ret' = NoReturn
               ELSE /\ tsRet' = [size |-> currentSize, err |-> Nil]
                    /\ IF tooLarge(currentSize, d, MaxSize)
                       THEN /\ ret' = Returned("IncreaseSize", currentSize,
                                         TooLargeErr(currentSize, currentSize + d, MaxSize))
                            /\ NoScaleUp
                       ELSE /\ StartScaleUp(d, "IncreaseSize", 1, <<>>)
                            /\ ret' = NoReturn
    /\ UNCHANGED <<vmProfile, lastId, vms, live, tagged, nextId>>
    /\ UNCHANGED idleVars

\* the instance id v as the string the API gives
IdStr(v) == <<ToString(v)>>

\* the values of the providerIDPrefix metadata: none, and "x://"
Prefixes == {<<>>, <<"x://">>}

\* strings.TrimPrefix(str, prefix)
TrimPrefix(str, prefix) ==
    IF Len(str) >= Len(prefix) /\ SubSeq(str, 1, Len(prefix)) = prefix
    THEN SubSeq(str, Len(prefix) + 1, Len(str))
    ELSE str

\* providerID(vmID): the external id of an instance of the group
providerID(vmID) == vmProfile.providerIDPrefix \o IdStr(vmID)

\* a node the orchestrator hands in: its name and its external id
Node(name, pid) == [Name |-> name, ProviderID |-> pid]

NodeNotFoundErr(node) ==
    <<"node (", node.Name, ", ">> \o node.ProviderID
    \o <<") not found in nodeGroup ", "ng1">>

\* vmForNode looking the external id up without stripping the prefix
vmForNodeRaw(node, bound) ==
    LET found == {k \in 1..Len(bound) : IdStr(bound[k]) = node.ProviderID}
    IN IF found = {} THEN NoId
       ELSE bound[CHOOSE k \in found : \A l \in found : k <= l]

\* vmForNode: the first bound instance whose id is the stripped external id
\* (NoId: none, the not-found error is returned)
vmForNode(node, bound) ==
    LET vmID == TrimPrefix(node.ProviderID, vmProfile.providerIDPrefix)
        found == {k \in 1..Len(bound) : IdStr(bound[k]) = vmID}
    IN IF found = {} THEN NoId
       ELSE bound[CHOOSE k \in found : \A l \in found : k <= l]

\* removeVM keeping the instance bound
removeVMKept(bound, vmID) == bound

\* removeVM cutting the list without moving the last entry first
removeVMNoSwap(bound, vmID) ==
    IF \A k \in 1..Len(bound) : bound[k] # vmID THEN bound
    ELSE SubSeq(bound, 1, Len(bound) - 1)

\* removeVM: the first entry with the id is overwritten by the last entry and
\* the list is cut by one
removeVM(bound, vmID) ==
    LET found == {k \in 1..Len(bound) : bound[k] = vmID}
    IN IF found = {} THEN bound
       ELSE LET i == CHOOSE k \in found : \A l \in found : k <= l
                swapped == [bound EXCEPT ![i] = bound[Len(bound)]]
            IN SubSeq(swapped, 1, Len(bound) - 1)

\* the operation that is not a scale-up returns
ReturnIdle ==
    /\ tsRet' = NoTargetSize
    /\ delta' = 0
    /\ count' = 0
    /\ tasks' = <<>>
    /\ wg' = 0
    /\ errCh' = <<>>
    /\ suErr' = Nil
    /\ batch' = 0
    /\ frame' = "none"

\* csNodeGroup.DeleteNodes(ns), up to its loop (or to its return, for no node)
DeleteNodes(ns) ==
    /\ pc = "idle"
    /\ call0' = [vms |-> vms, lt |-> live \cap tagged]
    /\ nodes' = ns
    /\ nodeAt' = 1
    /\ issued' = NoneIssued
    /\ calls' = [t \in 0..0 |-> <<>>]
    /\ IF Len(ns) = 0
       THEN /\ ret' = Returned("DeleteNodes", Len(vms), Nil)
            /\ pc' = "idle"
       ELSE /\ ret' = NoReturn
            /\ pc' = "delete"
    /\ ReturnIdle
    /\ UNCHANGED <<vmProfile, lastId, vms, live, tagged, nextId>>
    /\ UNCHANGED answer
    /\ UNCHANGED cacheVars
    /\ UNCHANGED discoveryVars

\* DeleteNodes: one pass of its loop, for the node nodes[nodeAt], the remote
\* API answering o to the destroy; it returns on an error and after the last node
DeleteNode(o) ==
    /\ pc = "delete"
    /\ LET node == nodes[nodeAt]
           vm == vmForNode(node, vms)
           rerr == DestroyRemoteErr(o, vm)
           err == destroyVM(vm, rerr)
           newVms == removeVM(vms, vm)
       IN IF vm = NoId
          THEN /\ o = "err"
               /\ ret' = Returned("DeleteNodes", Len(vms), NodeNotFoundErr(node))
               /\ pc' = "idle"
               /\ UNCHANGED <<vms, live, tagged, calls, issued, nodeAt>>
          ELSE /\ o \in DestroyOutcomes(vm)
               /\ calls' = [calls EXCEPT ![0] = Append(@, Call("destroy", vm, rerr))]
               /\ issued' = [issued EXCEPT !.destroy = @ + 1]
               /\ live' = IF o = "ok" THEN live \ {vm} ELSE live
               /\ tagged' = IF o = "ok" THEN tagged \ {vm} ELSE tagged
               /\ IF err # Nil
                  THEN /\ ret' = Returned("DeleteNodes", Len(vms), err)
                       /\ pc' = "idle"
                       /\ UNCHANGED <<vms, nodeAt>>
                  ELSE /\ vms' = newVms
                       /\ nodeAt' = nodeAt + 1
                       /\ IF nodeAt = Len(nodes)
                          THEN /\ ret' = Returned("DeleteNodes", Len(newVms), Nil)
                               /\ pc' = "idle"
                          ELSE UNCHANGED <<ret, pc>>
    /\ UNCHANGED <<vmProfile, lastId, nextId, frame, delta, count, tasks, wg, errCh, suErr,
                   tsRet, batch, call0, nodes>>
    /\ UNCHANGED answer
    /\ UNCHANGED cacheVars
    /\ UNCHANGED discoveryVars

\* DecreaseTargetSizeErr refusing a positive delta
DecreaseTargetSizeErrPositive(d) ==
    IF d > 0 THEN <<"size decrease must be negative">> ELSE Nil

\* DecreaseTargetSize: the value it returns
DecreaseTargetSizeErr(d) == Nil

\* csNodeGroup.DecreaseTargetSize(d)
DecreaseTargetSize(d) ==
    /\ pc = "idle"
    /\ answer' = Answer("DecreaseTargetSize", <<d>>, <<>>, DecreaseTargetSizeErr(d),
                        <<>>, answer.gone)
    /\ UNCHANGED <<vmProfile, lastId, vms, live, tagged, nextId, pc, frame, delta, count,
                   tasks, wg, errCh, suErr, tsRet, ret, calls, issued, batch, call0,
                   nodes, nodeAt>>
    /\ UNCHANGED cacheVars
    /\ UNCHANGED discoveryVars

\* the states of cloudprovider.InstanceState, and its zero value
InstanceRunning == "InstanceRunning"

InstanceCreating == "InstanceCreating"

InstanceDeleting == "InstanceDeleting"

NoInstanceState == "InstanceState(0)"

\* (*cloudprovider.InstanceErrorInfo)(nil)
NilErrorInfo ==
    [isNil |-> TRUE, ErrorClass |-> "", ErrorCode |-> "", ErrorMessage |-> <<>>]

\* toInstanceStatus taking a stopped instance for a running one
toInstanceStatusStoppedRuns(csState) ==
    IF csState \in {"Starting", "Migrating"}
    THEN [State |-> InstanceCreating, ErrorInfo |-> NilErrorInfo]
    ELSE IF csState \in {"Running", "Stopped"}
    THEN [State |-> InstanceRunning, ErrorInfo |-> NilErrorInfo]
    ELSE IF csState \in {"Stopping", "Destroyed", "Expunging", "Shutdowned"}
    THEN [State |-> InstanceDeleting, ErrorInfo |-> NilErrorInfo]
    ELSE [State |-> NoInstanceState,
          ErrorInfo |-> [isNil |-> FALSE, ErrorClass |-> "OtherErrorClass",
                         ErrorCode |-> "",
                         ErrorMessage |-> <<"unexpected vm state: ", csState>>]]

toInstanceStatus(csState) ==
    IF csState \in {"Starting", "Migrating"}
    THEN [State |-> InstanceCreating, ErrorInfo |-> NilErrorInfo]
    ELSE IF csState = "Running"
    THEN [State |-> InstanceRunning, ErrorInfo |-> NilErrorInfo]
    ELSE IF csState \in {"Stopping", "Stopped", "Destroyed", "Expunging", "Shutdowned"}
    THEN [State |-> InstanceDeleting, ErrorInfo |-> NilErrorInfo]
    ELSE [State |-> NoInstanceState,
          ErrorInfo |-> [isNil |-> FALSE, ErrorClass |-> "OtherErrorClass",
                         ErrorCode |-> "",
                         ErrorMessage |-> <<"unexpected vm state: ", csState>>]]

\* the State a bound instance handle may hold: the states toInstanceStatus
\* names, two it does not, a misspelt one and the empty string
VmStates ==
    {"Starting", "Migrating", "Running", "Stopping", "Stopped", "Destroyed",
     "Expunging", "Shutdowned", "Error", "Unknown", "running", ""}

\* csNodeGroup.Nodes(), states[k] being the State of the k-th bound handle
Nodes(states) ==
    /\ pc = "idle"
    /\ answer' = Answer("Nodes", states,
                        [k \in 1..Len(vms) |->
                            [Id |-> providerID(vms[k]),
                             Status |-> toInstanceStatus(states[k])]],
                        Nil, <<>>, answer.gone)
    /\ UNCHANGED <<vmProfile, lastId, vms, live, tagged, nextId, pc, frame, delta, count,
                   tasks, wg, errCh, suErr, tsRet, ret, calls, issued, batch, call0,
                   nodes, nodeAt>>
    /\ UNCHANGED cacheVars
    /\ UNCHANGED discoveryVars

\* g.removeVM(vmID) called on its own
RemoveVM(vmID) ==
    /\ pc = "idle"
    /\ vms' = removeVM(vms, vmID)
    /\ answer' = Answer("removeVM", <<vmID>>, <<>>, Nil, <<>>, answer.gone)
    /\ UNCHANGED <<vmProfile, lastId, live, tagged, nextId, pc, frame, delta, count,
                   tasks, wg, errCh, suErr, tsRet, ret, calls, issued, batch, call0,
                   nodes, nodeAt>>
    /\ UNCHANGED cacheVars
    /\ UNCHANGED discoveryVars

\* cloudstackManager.scaleUp after csScaler.scaleUp returned, and the rest of
\* the node-group method that called it
managerScaleUpReturn(o) ==
    /\ pc = "manager"
    /\ ~managerRefreshes(suErr) => o = "ok"
    /\ LET refreshes == managerRefreshes(suErr)
           err == IF refreshes THEN refreshErr(o) ELSE suErr
           newVms == IF refreshes THEN refreshVms(o, vms) ELSE vms
           main == IF refreshes THEN calls[0] \o refreshCalls(o) ELSE calls[0]
           tsErr == TargetSizeErr(err)
           currentSize == Len(newVms)
       IN /\ vms' = newVms
          /\ IF frame = "TargetSize"
             THEN /\ tsRet' = [size |-> currentSize, err |-> tsErr]
                  /\ ret' = Returned("TargetSize", currentSize, tsErr)
                  /\ Finish(main)
             ELSE IF frame = "IncreaseSize.TargetSize"
             THEN /\ tsRet' = [size |-> currentSize, err |-> tsErr]
                  /\ IF tsErr # Nil
                     THEN /\ ret' = Returned("IncreaseSize", currentSize, tsErr)
                          /\ Finish(main)
                     ELSE IF tooLarge(currentSize, delta, MaxSize)
                     THEN /\ ret' = Returned("IncreaseSize", currentSize,
                                      TooLargeErr(currentSize, currentSize + delta, MaxSize))
                          /\ Finish(main)
                     ELSE /\ StartScaleUp(delta, "IncreaseSize", batch + 1, main)
                          /\ nextId' = nextId + count
                          /\ UNCHANGED ret
             ELSE /\ ret' = Returned("IncreaseSize", currentSize, err)
                  /\ Finish(main)
                  /\ UNCHANGED tsRet
    /\ UNCHANGED <<vmProfile, lastId, live, tagged, delta, issued, call0>>
    /\ UNCHANGED idleVars

\* ---------------------------------------------------------------- projectCache
\* the zero time.Time, which lastUpdated holds until the first listing succeeds
ZeroTime == 0 - 1

\* the largest time.Duration: a longer span saturates to it
MaxDuration == MaxTime + 1

\* time.Since(t): the span from the zero Time to any time the clock reads is
\* longer than the largest Duration
Since(t) == IF t = ZeroTime THEN MaxDuration ELSE now - t

ProjectIds == {<<"pj1", "pj2", "pj3", "pj4">>[k] : k \in 1..MaxProjects}

\* the lists of projects ListProjects may answer with
ProjectLists ==
    {l \in UNION {[1..n -> ProjectIds] : n \in 0..MaxProjects} :
        \A a, b \in 1..Len(l) : l[a] = l[b] => a = b}

ListProjectsErr == <<"list projects err">>

\* the value newProjectCache(client, useProjects, maxAge) returns
newProjectCache(useProjects, maxAge) ==
    [projects |-> <<>>, maxAge |-> maxAge, lastUpdated |-> ZeroTime,
     useProjects |-> useProjects]

\* refreshSkipped looking at the age only
refreshSkippedByAge(cache) == Since(cache.lastUpdated) <= cache.maxAge

\* projectCache.refresh: whether it returns without listing
refreshSkipped(cache) ==
    ~cache.useProjects \/ Since(cache.lastUpdated) <= cache.maxAge

\* refreshedCache stamping the cache after a failed listing too
refreshedCacheStamped(cache, list, err) ==
    IF refreshSkipped(cache) THEN cache
    ELSE IF err # Nil THEN [cache EXCEPT !.lastUpdated = now]
    ELSE [cache EXCEPT !.lastUpdated = now, !.projects = list]

\* projectCache.refresh on cache, ListProjects answering (list, err): the
\* cache afterwards
refreshedCache(cache, list, err) ==
    IF refreshSkipped(cache) \/ err # Nil THEN cache
    ELSE [cache EXCEPT !.lastUpdated = now, !.projects = list]

\* projectCache.refresh on cache, ListProjects answering err: the value returned
refreshResult(cache, err) == IF refreshSkipped(cache) THEN Nil ELSE err

\* no refresh was called yet
NoRefresh ==
    [called |-> FALSE, listed |-> FALSE, err |-> Nil, at |-> 0,
     okAt |-> ZeroTime, before |-> newProjectCache(FALSE, 1), prevFailed |-> FALSE]

\* what is recorded of a refresh called on cache, ListProjects answering err
\* (okAt: when the last listing before this call succeeded; prevFailed: the
\* listing of the refresh called before this one failed)
Refreshed(cache, err) ==
    [called |-> TRUE, listed |-> ~refreshSkipped(cache),
     err |-> refreshResult(cache, err), at |-> now,
     okAt |-> IF refreshed.called /\ refreshed.listed /\ refreshed.err = Nil
              THEN refreshed.at ELSE refreshed.okAt,
     before |-> cache,
     prevFailed |-> refreshed.called /\ refreshed.listed /\ refreshed.err # Nil]

\* pc.refresh(), ListProjects answering (list, err)
refresh(list, err) ==
    /\ err = Nil \/ list = <<>>
    /\ projects' = refreshedCache(projects, list, err)
    /\ refreshed' = Refreshed(projects, err)
    /\ UNCHANGED <<now, visited>>
    /\ UNCHANGED <<groupVars, discoveryVars>>

\* the clock advances
Tick ==
    /\ now < MaxTime
    /\ now' = now + 1
    /\ UNCHANGED <<projects, refreshed, visited>>
    /\ UNCHANGED <<groupVars, discoveryVars>>

\* the error the function handed to forEach returns for the partition
VisitErr(projectID) == <<"myerr ", projectID>>

\* forEachParts leaving the root partition out
forEachPartsCachedOnly(cache) == cache.projects

\* forEach: the partitions of its loop, append([]*cloudstack.Project{{}}, pc.projects...)
forEachParts(cache) == <<"">> \o cache.projects

\* visitFrom going on after a failed call
visitFromAll(parts, k, failing) ==
    LET bad == {l \in k..Len(parts) : parts[l] \in failing}
    IN [ids |-> SubSeq(parts, k, Len(parts)),
        err |-> IF bad = {} THEN Nil
                ELSE VisitErr(parts[CHOOSE l \in bad : \A m \in bad : l <= m])]

RECURSIVE visitFrom(_, _, _)
\* forEach: its loop from the k-th partition on, fn failing for the partitions
\* of failing: the partitions fn is called with and the error returned
visitFrom(parts, k, failing) ==
    IF k > Len(parts) THEN [ids |-> <<>>, err |-> Nil]
    ELSE IF parts[k] \in failing
    THEN [ids |-> <<parts[k]>>, err |-> VisitErr(parts[k])]
    ELSE LET rest == visitFrom(parts, k + 1, failing)
         IN [ids |-> <<parts[k]>> \o rest.ids, err |-> rest.err]

\* no forEach was called yet
NoForEach ==
    [called |-> FALSE, ids |-> <<>>, err |-> Nil, failing |-> {},
     refreshErr |-> Nil, cached |-> <<>>]

\* pc.forEach(fn), ListProjects answering (list, err) and fn failing for the
\* partitions of failing
ForEach(list, err, failing) ==
    /\ err = Nil \/ list = <<>>
    /\ refreshSkipped(projects) => (list = <<>> /\ err = Nil)
    /\ LET after == refreshedCache(projects, list, err)
           rerr == refreshResult(projects, err)
           loop == visitFrom(forEachParts(after), 1, failing)
       IN /\ failing \subseteq Range(forEachParts(after))
          /\ projects' = after
          /\ refreshed' = Refreshed(projects, err)
          /\ visited' = IF rerr # Nil
                        THEN [called |-> TRUE, ids |-> <<>>, err |-> rerr,
                              failing |-> failing, refreshErr |-> rerr,
                              cached |-> after.projects]
                        ELSE [called |-> TRUE, ids |-> loop.ids, err |-> loop.err,
                              failing |-> failing, refreshErr |-> Nil,
                              cached |-> after.projects]
    /\ UNCHANGED now
    /\ UNCHANGED <<groupVars, discoveryVars>>

\* ---------------------------------------------------------------- discovery
autoScaleProfileMetadataName == "nodeGroupName"

autoScaleProfileMetadataMin == "minNodes"

autoScaleProfileMetadataMax == "maxNodes"

requiredAutoScaleProfileMetadata ==
    <<autoScaleProfileMetadataName, autoScaleProfileMetadataMin,
      autoScaleProfileMetadataMax>>

\* a cloudstack.ResourceDetail
Detail(k, v) == [Key |-> k, Value |-> v]

\* resourceDetailsToMetadata: the map of the details, a later item replacing
\* an earlier one with the same key
resourceDetailsToMetadata(details) ==
    [k \in {details[i].Key : i \in 1..Len(details)} |->
        LET at == {i \in 1..Len(details) : details[i].Key = k}
        IN details[CHOOSE i \in at : \A j \in at : j <= i].Value]

\* matchesSelector accepting any value of a wanted key
matchesSelectorKeysOnly(existing, wanted) ==
    \A wantedKey \in DOMAIN wanted : wantedKey \in DOMAIN existing

\* matchesSelector: every wanted key exists, with the wanted value unless the
\* wanted value is empty
matchesSelector(existing, wanted) ==
    \A wantedKey \in DOMAIN wanted :
        /\ wantedKey \in DOMAIN existing
        /\ ~(wanted[wantedKey] # "" /\ existing[wantedKey] # wanted[wantedKey])

matchesLabelConfigs(metadata, labels) ==
    \E i \in 1..Len(labels) : matchesSelector(metadata, labels[i].Selector)

validASP(metadata) ==
    /\ \A i \in 1..Len(requiredAutoScaleProfileMetadata) :
          requiredAutoScaleProfileMetadata[i] \in DOMAIN metadata
    /\ matchesLabelConfigs(metadata, labelConfig)

\* a discovery spec "label:k=v,k=v" cut at ":" and ",": its discoverer and its
\* arguments, each argument cut at "="
DiscoverySpec(discoverer, args) == [discoverer |-> discoverer, args |-> args]

\* parseLabelAutoDiscoverySpec: the selector set of the arguments (a later
\* argument replacing an earlier one with the same key) and whether the spec
\* is rejected
parseLabelAutoDiscoverySpec(spec) ==
    LET args == spec.args
        bad == \/ spec.discoverer # "label"
               \/ \E i \in 1..Len(args) :
                     \/ Len(args[i]) # 2
                     \/ args[i][1] = ""
                     \/ args[i][2] = ""
    IN [err |-> bad,
        cfg |-> IF bad THEN [Selector |-> <<>>]
                ELSE [Selector |->
                        [k \in {args[i][1] : i \in 1..Len(args)} |->
                            LET at == {i \in 1..Len(args) : args[i][1] = k}
                            IN args[CHOOSE i \in at : \A j \in at : j <= i][2]]]]

\* parseLabelAutoDiscoverySpecs: the selector sets of the specs, when none is
\* rejected
parseLabelAutoDiscoverySpecs(specs) ==
    [err |-> \E i \in 1..Len(specs) : parseLabelAutoDiscoverySpec(specs[i]).err,
     cfgs |-> [i \in 1..Len(specs) |-> parseLabelAutoDiscoverySpec(specs[i]).cfg]]

\* the selector sets a manager can hold: those of the accepted configurations
\* of up to MaxSpecs discovery specs among "label:a=b", "label:a=c",
\* "label:a=b,x=y", "label:a=b,a=c", and the rejected "label:a=", "other:a=b"
LabelConfigs ==
    LET inputs == {DiscoverySpec("label", <<<<"a", "b">>>>),
                   DiscoverySpec("label", <<<<"a", "c">>>>),
                   DiscoverySpec("label", <<<<"a", "b">>, <<"x", "y">>>>),
                   DiscoverySpec("label", <<<<"a", "b">>, <<"a", "c">>>>),
                   DiscoverySpec("label", <<<<"a", "">>>>),
                   DiscoverySpec("other", <<<<"a", "b">>>>)}
        lists == UNION {[1..n -> inputs] : n \in 0..MaxSpecs}
    IN {parseLabelAutoDiscoverySpecs(specs).cfgs :
           specs \in {l \in lists : ~parseLabelAutoDiscoverySpecs(l).err}}

\* the details ListResourceDetails may answer with for a definition: each
\* required key present or not, the label a absent, b or c, the label x absent
\* or y, and the key a possibly given twice
DetailInputs ==
    {SelectSeq(<<Detail("a", a1), Detail(autoScaleProfileMetadataName, name),
                 Detail(autoScaleProfileMetadataMin, min),
                 Detail(autoScaleProfileMetadataMax, max),
                 Detail("x", x), Detail("a", a2)>>,
               LAMBDA d : d.Value # "-") :
        a1 \in {"-", "b", "c"}, name \in {"-", "ng1"}, min \in {"-", "0"},
        max \in {"-", "", "10"}, x \in {"-", "y"}, a2 \in {"-", "b"}}

\* no validASP was called yet
NoCheck == [called |-> FALSE, metadata |-> <<>>, valid |-> FALSE]

\* m.validASP(resourceDetailsToMetadata(details))
ValidASP(details) ==
    /\ LET metadata == resourceDetailsToMetadata(details)
       IN checked' = [called |-> TRUE, metadata |-> metadata,
                      valid |-> validASP(metadata)]
    /\ UNCHANGED <<labelConfig, nodeGroups, world, returned>>
    /\ UNCHANGED <<groupVars, cacheVars>>

AspNames == <<"asp1", "asp2", "asp3", "asp4">>

AspIds == {AspNames[k] : k \in 1..MaxAsps}

\* a cloudstack.AutoScaleVmProfile listed in partition part
Asp(id, part) ==
    [Id |-> id, Projectid |-> part, Serviceofferingid |-> "offering1",
     Zoneid |-> "zone1"]

\* a remote call of the discovery
RemoteCall(op, arg) == [op |-> op, arg |-> arg]

\* the error of the remote call that fails
RemoteErr(call) == <<"err ", call.op, " ", call.arg>>

NoFail == RemoteCall("none", "")

\* the details ListResourceDetails answers with in a discovery pass: a valid
\* definition named ng1, a valid one named ng2 (its name given twice), and
\* one without minNodes
DetailsNg1 ==
    <<Detail("a", "b"), Detail("nodeGroupName", "ng1"), Detail("minNodes", "0"),
      Detail("maxNodes", "10")>>

DetailsNg2 ==
    <<Detail("a", "b"), Detail("nodeGroupName", "ng1"), Detail("minNodes", "0"),
      Detail("maxNodes", "10"), Detail("nodeGroupName", "ng2")>>

DetailsNoMin ==
    <<Detail("a", "b"), Detail("nodeGroupName", "ng1"), Detail("maxNodes", "10")>>

\* what the remote API holds and answers during a discovery pass: the
\* partition each definition is listed in ("-": in none of those visited), its
\* details, the answer of ListProjects, and the remote call that fails
Worlds ==
    [part : [AspIds -> {""} \cup ProjectIds \cup {"-"}],
     details : [AspIds -> {DetailsNg1, DetailsNg2, DetailsNoMin}],
     list : ProjectLists,
     fail : {NoFail, RemoteCall("ListProjects", "")}
            \cup {RemoteCall("ListAutoScaleVmProfiles", p) : p \in {""} \cup ProjectIds}
            \cup {RemoteCall(op, a) :
                    op \in {"ListResourceDetails", "ListVirtualMachines",
                            "GetServiceOfferingByID", "GetZoneByID"},
                    a \in AspIds}]

NoWorld == [part |-> <<>>, details |-> <<>>, list |-> <<>>, fail |-> NoFail]

RECURSIVE AspsFrom(_, _, _)
\* ListAutoScaleVmProfiles(projectid: part): the definitions of the partition
AspsFrom(W, part, k) ==
    IF k > MaxAsps THEN <<>>
    ELSE (IF W.part[AspNames[k]] = part THEN <<Asp(AspNames[k], part)>> ELSE <<>>)
         \o AspsFrom(W, part, k + 1)

\* the instances ListVirtualMachines(tags: nodeGroupName = name) answers with
TaggedVms(name, projectid) == IF name = "ng1" THEN <<1>> ELSE <<2, 3>>

\* vmProfile.Id()
ProfileId(vmp) ==
    IF autoScaleProfileMetadataName \in DOMAIN vmp.aspMetadata
    THEN vmp.aspMetadata[autoScaleProfileMetadataName] ELSE ""

\* the state of a discovery pass: the local nodeGroups and registeredIds of
\* Refresh, the remote calls issued, and the error that ended the pass
PassState(groups, ids, log, err) ==
    [nodeGroups |-> groups, registeredIds |-> ids, log |-> log, err |-> err]

\* the remote call is issued: it is logged, and it fails if the world says so
Issue(st, W, call) ==
    [st EXCEPT !.log = Append(@, call),
               !.err = IF W.fail = call THEN RemoteErr(call) ELSE @]

ConflictErr(name, id, existingASPID) ==
    <<"more than one AutoScaleVMProfile with the nodeGroupName ", name,
      ", ids: ", id, " and ", existingASPID>>

\* refreshNodeGroupVms(&ng) inside Refresh, and the append that follows it
refreshNodeGroup(asp, metadata, W, st) ==
    LET name == ProfileId([aspMetadata |-> metadata])
        s1 == Issue(st, W, RemoteCall("ListVirtualMachines", asp.Id))
        s2 == Issue(s1, W, RemoteCall("GetServiceOfferingByID", asp.Id))
        s3 == Issue(s2, W, RemoteCall("GetZoneByID", asp.Id))
        ng == [vmProfile |-> [asp |-> asp, aspMetadata |-> metadata,
                              offering |-> [Id |-> asp.Serviceofferingid],
                              zone |-> [Id |-> asp.Zoneid]],
               vms |-> TaggedVms(name, asp.Projectid)]
    IN IF s1.err # Nil THEN s1
       ELSE IF s2.err # Nil THEN s2
       ELSE IF s3.err # Nil THEN s3
       ELSE [s3 EXCEPT !.nodeGroups = Append(@, ng)]

\* visitAsp without the lookup in registeredIds
visitAspUnchecked(asp, W, st) ==
    LET s1 == Issue(st, W, RemoteCall("ListResourceDetails", asp.Id))
        metadata == resourceDetailsToMetadata(W.details[asp.Id])
        name == ProfileId([aspMetadata |-> metadata])
    IN IF s1.err # Nil THEN s1
       ELSE IF ~validASP(metadata) THEN s1
       ELSE refreshNodeGroup(asp, metadata, W,
                [s1 EXCEPT !.registeredIds = @ \cup {<<name, asp.Id>>}])

\* Refresh: the body of the loop over the definitions of a partition
visitAsp(asp, W, st) ==
    LET s1 == Issue(st, W, RemoteCall("ListResourceDetails", asp.Id))
        metadata == resourceDetailsToMetadata(W.details[asp.Id])
        name == ProfileId([aspMetadata |-> metadata])
        existing == {r \in st.registeredIds : r[1] = name}
    IN IF s1.err # Nil THEN s1
       ELSE IF ~validASP(metadata) THEN s1
       ELSE IF existing # {}
       THEN [s1 EXCEPT !.err = ConflictErr(name, asp.Id,
                                           (CHOOSE r \in existing : TRUE)[2])]
       ELSE refreshNodeGroup(asp, metadata, W,
                [s1 EXCEPT !.registeredIds = @ \cup {<<name, asp.Id>>}])

RECURSIVE visitAsps(_, _, _, _)
\* Refresh: the loop over the definitions of a partition, from the k-th on
visitAsps(asps, k, W, st) ==
    IF k > Len(asps) \/ st.err # Nil THEN st
    ELSE visitAsps(asps, k + 1, W, visitAsp(asps[k], W, st))

\* Refresh: the function handed to forEach
visitProject(projectID, W, st) ==
    LET s1 == Issue(st, W, RemoteCall("ListAutoScaleVmProfiles", projectID))
    IN IF s1.err # Nil THEN s1
       ELSE visitAsps(AspsFrom(W, projectID, 1), 1, W, s1)

RECURSIVE visitProjects(_, _, _, _)
\* forEach: the loop over the root partition and the cached projects
visitProjects(parts, k, W, st) ==
    IF k > Len(parts) \/ st.err # Nil THEN st
    ELSE visitProjects(parts, k + 1, W, visitProject(parts[k], W, st))

\* the error ListProjects answers with in the world W
ListProjectsAnswer(W) ==
    IF W.fail = RemoteCall("ListProjects", "")
    THEN RemoteErr(RemoteCall("ListProjects", "")) ELSE Nil

\* forEach visiting the root partition only
forEachRootOnly(cache, W) ==
    LET err == refreshResult(cache, ListProjectsAnswer(W))
        st == PassState(<<>>, {},
                        IF refreshSkipped(cache) THEN <<>>
                        ELSE <<RemoteCall("ListProjects", "")>>,
                        err)
    IN IF err # Nil THEN st
       ELSE visitProjects(<<"">>, 1, W, st)

\* m.projects.forEach(fn) inside Refresh: the pass, from pc.refresh() on
forEach(cache, W) ==
    LET err == refreshResult(cache, ListProjectsAnswer(W))
        after == refreshedCache(cache, W.list, ListProjectsAnswer(W))
        st == PassState(<<>>, {},
                        IF refreshSkipped(cache) THEN <<>>
                        ELSE <<RemoteCall("ListProjects", "")>>,
                        err)
    IN IF err # Nil THEN st
       ELSE visitProjects(<<"">> \o after.projects, 1, W, st)

\* Refresh: m.nodeGroups after the pass
installed(st, before) == st.nodeGroups

NoRefreshCall == [called |-> FALSE, err |-> Nil, log |-> <<>>, before |-> <<>>]

\* cloudstackManager.Refresh(), the remote API answering as in W
Refresh(W) ==
    /\ (refreshSkipped(projects) \/ ListProjectsAnswer(W) # Nil) => W.list = <<>>
    /\ \A a \in AspIds :
          /\ W.part[a] \in {"-", ""}
                \cup Range(refreshedCache(projects, W.list, ListProjectsAnswer(W)).projects)
          /\ W.part[a] = "-" => W.details[a] = DetailsNoMin
    /\ LET st == forEach(projects, W)
       IN /\ W.fail # NoFail => st.err # Nil
          /\ nodeGroups' = installed(st, nodeGroups)
          /\ returned' = [called |-> TRUE, err |-> st.err, log |-> st.log,
                          before |-> nodeGroups]
    /\ projects' = refreshedCache(projects, W.list, ListProjectsAnswer(W))
    /\ refreshed' = Refreshed(projects, ListProjectsAnswer(W))
    /\ world' = W
    /\ UNCHANGED <<labelConfig, checked, now, visited>>
    /\ UNCHANGED groupVars

autoScaleProfileMetadataProviderIDPrefix == "providerIDPrefix"

\* vmProfile.providerIDPrefix() of an installed group, as the pieces of the string
providerIDPrefix(vmp) ==
    IF autoScaleProfileMetadataProviderIDPrefix \in DOMAIN vmp.aspMetadata
       /\ vmp.aspMetadata[autoScaleProfileMetadataProviderIDPrefix] # ""
    THEN <<vmp.aspMetadata[autoScaleProfileMetadataProviderIDPrefix]>>
    ELSE <<>>

\* nodeGroupForNode stripping the prefix from the node's id, as vmForNode does
nodeGroupForNodeTrimmed(groups, node) ==
    LET holds(i) ==
            \E k \in 1..Len(groups[i].vms) :
                IdStr(groups[i].vms[k]) =
                    TrimPrefix(node.ProviderID, providerIDPrefix(groups[i].vmProfile))
        found == {i \in 1..Len(groups) : holds(i)}
    IN IF found = {} THEN <<>>
       ELSE <<CHOOSE i \in found : \A j \in found : i <= j>>

\* NodeGroupForNode: the position of the group returned (<<>>: nil)
nodeGroupForNode(groups, node) ==
    LET holds(i) ==
            \E k \in 1..Len(groups[i].vms) :
                providerIDPrefix(groups[i].vmProfile) \o IdStr(groups[i].vms[k])
                    = node.ProviderID
        found == {i \in 1..Len(groups) : holds(i)}
    IN IF found = {} THEN <<>>
       ELSE <<CHOOSE i \in found : \A j \in found : i <= j>>

\* csCloudProvider.NodeGroupForNode(node)
NodeGroupForNode(node) ==
    /\ answer' = Answer("NodeGroupForNode", <<node>>,
                        nodeGroupForNode(nodeGroups, node), Nil, <<>>, answer.gone)
    /\ UNCHANGED <<vmProfile, lastId, vms, live, tagged, nextId, pc, frame, delta, count,
                   tasks, wg, errCh, suErr, tsRet, ret, calls, issued, batch, call0,
                   nodes, nodeAt>>
    /\ UNCHANGED cacheVars
    /\ UNCHANGED discoveryVars

\* ---------------------------------------------------------------- specification

\* the project cache is not used
CacheUnused ==
    /\ projects = newProjectCache(FALSE, 1)
    /\ now = 0
    /\ refreshed = NoRefresh
    /\ visited = NoForEach

\* the discovery is not used
DiscoveryUnused ==
    /\ labelConfig = <<>>
    /\ nodeGroups = <<>>
    /\ world = NoWorld
    /\ returned = NoRefreshCall
    /\ checked = NoCheck

\* the node group is not used
GroupUnused ==
    /\ vmProfile = [minSize |-> 0, maxSize |-> 0, providerIDPrefix |-> <<>>]
    /\ lastId = MaxVms
    /\ vms = <<>>
    /\ live = {}
    /\ tagged = {}
    /\ nextId = 1
    /\ pc = "idle"
    /\ frame = "none"
    /\ delta = 0
    /\ count = 0
    /\ tasks = <<>>
    /\ wg = 0
    /\ errCh = <<>>
    /\ suErr = Nil
    /\ tsRet = NoTargetSize
    /\ ret = NoReturn
    /\ calls = [t \in 0..0 |-> <<>>]
    /\ issued = NoneIssued
    /\ batch = 0
    /\ call0 = [vms |-> <<>>, lt |-> {}]
    /\ nodes = <<>>
    /\ nodeAt = 1
    /\ answer = NoAnswer

Init ==
    /\ vmProfile \in [minSize : 0..MaxMinSize, maxSize : 0..MaxMaxSize,
                      providerIDPrefix : {<<>>}]
    /\ lastId = MaxVms
    /\ \E n \in 0..MaxInitVms :
          /\ live = 1..n
          /\ tagged = 1..n
          /\ vms = SortedSeq(1..n)
          /\ nextId = n + 1
    /\ pc = "idle"
    /\ frame = "none"
    /\ delta = 0
    /\ count = 0
    /\ tasks = <<>>
    /\ wg = 0
    /\ errCh = <<>>
    /\ suErr = Nil
    /\ tsRet = NoTargetSize
    /\ ret = NoReturn
    /\ calls = [t \in 0..0 |-> <<>>]
    /\ issued = NoneIssued
    /\ batch = 0
    /\ call0 = [vms |-> <<>>, lt |-> {}]
    /\ nodes = <<>>
    /\ nodeAt = 1
    /\ answer = NoAnswer
    /\ CacheUnused
    /\ DiscoveryUnused

Next ==
    \/ TargetSize
    \/ \E d \in (0 - 1)..MaxDelta : IncreaseSize(d)
    \/ \E i \in 1..count, o \in {"ok", "errNil", "errEmptyId", "errIdLive", "errIdGone"} :
          DeployVirtualMachine(i, o)
    \/ \E i \in 1..count, o \in {"ok", "err"} : CreateTags(i, o)
    \/ \E i \in 1..count, o \in {"ok", "notfound", "err"} : DestroyVirtualMachine(i, o)
    \/ \E i \in 1..count : TaskSend(i)
    \/ scaleUpReturn
    \/ \E o \in {"ok", "listErr", "offeringErr", "zoneErr"} : managerScaleUpReturn(o)

Spec == Init /\ [][Next]_vars

\* ---------------------------------------------------------------- DeleteNodes
\* the lists of distinct instances among 1..MaxBound, in any order (the order
\* earlier swap-removals may have left)
BoundLists ==
    {l \in UNION {[1..n -> 1..MaxBound] : n \in 0..MaxBound} :
        \A a, b \in 1..Len(l) : l[a] = l[b] => a = b}

\* The group when DeleteNodes is called: some instances are bound, and some of
\* them may have vanished from the remote side since they were listed.
InitDelete ==
    /\ vmProfile \in [minSize : {0}, maxSize : {MaxMaxSize}, providerIDPrefix : Prefixes]
    /\ lastId = MaxVms
    /\ vms \in BoundLists
    /\ live \in SUBSET Range(vms)
    /\ tagged = live
    /\ nextId = MaxBound + 1
    /\ pc = "idle"
    /\ frame = "none"
    /\ delta = 0
    /\ count = 0
    /\ tasks = <<>>
    /\ wg = 0
    /\ errCh = <<>>
    /\ suErr = Nil
    /\ tsRet = NoTargetSize
    /\ ret = NoReturn
    /\ calls = [t \in 0..0 |-> <<>>]
    /\ issued = NoneIssued
    /\ batch = 0
    /\ call0 = [vms |-> <<>>, lt |-> {}]
    /\ nodes = <<>>
    /\ nodeAt = 1
    /\ answer = NoAnswer
    /\ CacheUnused
    /\ DiscoveryUnused

\* the DeleteNodes call on the group of InitDelete, and the answers of the
\* remote API; the external id of a node handed in is the id of an instance,
\* bound or not, with or without the "x://" prefix
NextDelete ==
    \/ /\ ret = NoReturn
       /\ \E ns \in UNION {[1..l -> {Node("n1", p \o IdStr(v)) :
                                        p \in Prefixes, v \in 1..MaxBound}] :
                            l \in 0..MaxNodes} : DeleteNodes(ns)
    \/ \E o \in {"ok", "notfound", "err"} : DeleteNode(o)

SpecDelete == InitDelete /\ [][NextDelete]_vars

\* ---------------------------------------------------------------- destroyVM alone
\* no operation of the node group is running and none has run
GroupIdle ==
    /\ pc = "idle"
    /\ frame = "none"
    /\ delta = 0
    /\ count = 0
    /\ tasks = <<>>
    /\ wg = 0
    /\ errCh = <<>>
    /\ suErr = Nil
    /\ tsRet = NoTargetSize
    /\ ret = NoReturn
    /\ calls = [t \in 0..0 |-> <<>>]
    /\ issued = NoneIssued
    /\ batch = 0
    /\ call0 = [vms |-> <<>>, lt |-> {}]
    /\ nodes = <<>>
    /\ nodeAt = 1
    /\ answer = NoAnswer

\* The scaler and a remote side on which some of the instances 1..MaxVms exist.
InitDestroy ==
    /\ vmProfile = [minSize |-> 0, maxSize |-> 0, providerIDPrefix |-> <<>>]
    /\ lastId = MaxVms
    /\ vms = <<>>
    /\ live \in SUBSET (1..MaxVms)
    /\ tagged = live
    /\ nextId = MaxVms + 1
    /\ GroupIdle
    /\ CacheUnused
    /\ DiscoveryUnused

NextDestroy ==
    \E vmID \in 1..MaxVms, o \in {"ok", "notfound", "notfoundOther", "err"} :
        DestroyVM(vmID, o)

SpecDestroy == InitDestroy /\ [][NextDestroy]_vars

\* ---------------------------------------------------------------- the cache alone
\* the cache after newProjectCache, which rejects maxAge <= 0
InitCache ==
    /\ \E useProjects \in BOOLEAN, maxAge \in 1..MaxDuration :
          projects = newProjectCache(useProjects, maxAge)
    /\ now = 0
    /\ refreshed = NoRefresh
    /\ visited = NoForEach
    /\ GroupUnused
    /\ DiscoveryUnused

NextCache ==
    \/ \E list \in ProjectLists, err \in {Nil, ListProjectsErr} : refresh(list, err)
    \/ \E list \in ProjectLists, err \in {Nil, ListProjectsErr},
          failing \in SUBSET ({""} \cup ProjectIds) : ForEach(list, err, failing)
    \/ Tick

SpecCache == InitCache /\ [][NextCache]_vars

\* ---------------------------------------------------------------- validASP alone
\* a manager with the selector sets of an accepted configuration
InitValid ==
    /\ labelConfig \in LabelConfigs
    /\ nodeGroups = <<>>
    /\ world = NoWorld
    /\ returned = NoRefreshCall
    /\ checked = NoCheck
    /\ GroupUnused
    /\ CacheUnused

NextValid == \E details \in DetailInputs : ValidASP(details)

SpecValid == InitValid /\ [][NextValid]_vars

\* ---------------------------------------------------------------- Refresh
\* the groups of an earlier pass
EarlierGroups ==
    {<<>>,
     <<[vmProfile |-> [asp |-> Asp("asp1", ""),
                       aspMetadata |-> resourceDetailsToMetadata(DetailsNg1),
                       offering |-> [Id |-> "offering1"], zone |-> [Id |-> "zone1"]],
        vms |-> <<1>>]>>}

\* The manager when Refresh is called; the cache it finds is disabled, never
\* listed, or listed at the current time.
InitRefresh ==
    /\ labelConfig = parseLabelAutoDiscoverySpecs(
                         <<DiscoverySpec("label", <<<<"a", "b">>>>)>>).cfgs
    /\ nodeGroups \in EarlierGroups
    /\ projects \in
           {newProjectCache(FALSE, 1), newProjectCache(TRUE, 1)}
           \cup {[newProjectCache(TRUE, 1) EXCEPT !.projects = l, !.lastUpdated = 0] :
                    l \in ProjectLists}
    /\ now = 0
    /\ refreshed = NoRefresh
    /\ visited = NoForEach
    /\ world = NoWorld
    /\ returned = NoRefreshCall
    /\ checked = NoCheck
    /\ GroupUnused

\* the Refresh call on the manager of InitRefresh
NextRefresh == ~returned.called /\ \E W \in Worlds : Refresh(W)

SpecRefresh == InitRefresh /\ [][NextRefresh]_vars

\* The manager newManager returns, its project cache disabled: no node group
\* is installed before the first Refresh.
InitRefreshes ==
    /\ InitRefresh
    /\ nodeGroups = <<>>
    /\ projects = newProjectCache(FALSE, 1)

\* Refresh called again and again, as the autoscaler's loop does: every
\* definition is listed in the root partition, and a pass succeeds, ends at a
\* name defined twice, or ends at a failing ListVirtualMachines
NextRefreshes ==
    \E W \in [part : [AspIds -> {""}],
               details : [AspIds -> {DetailsNg1, DetailsNg2, DetailsNoMin}],
               list : {<<>>},
               fail : {NoFail}
                      \cup {RemoteCall("ListVirtualMachines", a) : a \in AspIds}] :
        Refresh(W)

SpecRefreshes == InitRefreshes /\ [][NextRefreshes]_vars

\* ---------------------------------------------------------------- Nodes, DecreaseTargetSize
\* The group of an installed set, with some instances bound.
InitNodes ==
    /\ vmProfile \in [minSize : {0}, maxSize : {MaxMaxSize}, providerIDPrefix : Prefixes]
    /\ lastId = MaxVms
    /\ vms \in BoundLists
    /\ live = Range(vms)
    /\ tagged = live
    /\ nextId = MaxBound + 1
    /\ GroupIdle
    /\ CacheUnused
    /\ labelConfig = <<>>
    /\ nodeGroups \in EarlierGroups
    /\ world = NoWorld
    /\ returned = NoRefreshCall
    /\ checked = NoCheck

\* the Nodes call on the group of InitNodes, and DecreaseTargetSize
NextNodes ==
    \/ /\ answer.op # "Nodes"
       /\ \E states \in [1..Len(vms) -> VmStates] : Nodes(states)
    \/ \E d \in (0 - MaxDelta)..MaxDelta : DecreaseTargetSize(d)

SpecNodes == InitNodes /\ [][NextNodes]_vars

\* removeVM calls on the group of InitNodes, for bound ids and for others
NextRemove == \E vmID \in 1..(MaxBound + 1) : RemoveVM(vmID)

SpecRemove == InitNodes /\ [][NextRemove]_vars

\* ---------------------------------------------------------------- NodeGroupForNode
\* the group sets NodeGroupForNode may find installed: every group has a
\* prefix or none and some of the instances 1..MaxBound bound, and an
\* instance id may be bound in several groups
ProviderGroups ==
    UNION {{[k \in 1..n |->
               [vmProfile |->
                   [asp |-> Asp(AspNames[k], ""),
                    aspMetadata |-> resourceDetailsToMetadata(
                        <<Detail("nodeGroupName", AspNames[k]), Detail("minNodes", "0"),
                          Detail("maxNodes", "10")>>
                        \o (IF c[k][1] = <<>> THEN <<>>
                            ELSE <<Detail(autoScaleProfileMetadataProviderIDPrefix,
                                          c[k][1][1])>>)),
                    offering |-> [Id |-> "offering1"], zone |-> [Id |-> "zone1"]],
                vms |-> SortedSeq(c[k][2])]] :
               c \in [1..n -> Prefixes \X SUBSET (1..MaxBound)]} : n \in 0..MaxGroups}

InitProvider ==
    /\ nodeGroups \in ProviderGroups
    /\ labelConfig = <<>>
    /\ world = NoWorld
    /\ returned = NoRefreshCall
    /\ checked = NoCheck
    /\ GroupUnused
    /\ CacheUnused

\* the node handed to NodeGroupForNode has the id of an instance, bound or
\* not, with or without the prefix
NextProvider ==
    \E p \in Prefixes, v \in 1..(MaxBound + 1) : NodeGroupForNode(Node("n1", p \o IdStr(v)))

SpecProvider == InitProvider /\ [][NextProvider]_vars


\* ---------------------------------------------------------------- serialized calls
\* A group with minSize <= maxSize whose bound list is its set of live tagged
\* instances and holds at most maxSize of them; the remote API has ids for
\* two fan-outs of two units.
InitSerial ==
    /\ vmProfile \in {p \in [minSize : 0..MaxMinSize, maxSize : 0..MaxMaxSize,
                              providerIDPrefix : {<<>>}] : p.minSize <= p.maxSize}
    /\ lastId = MaxVms + 1
    /\ \E n \in 0..MaxInitVms :
          /\ n <= vmProfile.maxSize
          /\ live = 1..n
          /\ tagged = 1..n
          /\ vms = SortedSeq(1..n)
          /\ nextId = n + 1
    /\ pc = "idle"
    /\ frame = "none"
    /\ delta = 0
    /\ count = 0
    /\ tasks = <<>>
    /\ wg = 0
    /\ errCh = <<>>
    /\ suErr = Nil
    /\ tsRet = NoTargetSize
    /\ ret = NoReturn
    /\ calls = [t \in 0..0 |-> <<>>]
    /\ issued = NoneIssued
    /\ batch = 0
    /\ call0 = [vms |-> <<>>, lt |-> {}]
    /\ nodes = <<>>
    /\ nodeAt = 1
    /\ answer = NoAnswer
    /\ CacheUnused
    /\ DiscoveryUnused

\* serialized IncreaseSize and TargetSize calls; a unit's deploy, tag and
\* destroy may fail, the listing of refreshNodeGroupVms succeeds
NextSerial ==
    \/ TargetSize
    \/ \E d \in 1..MaxDelta : IncreaseSize(d)
    \/ \E i \in 1..count, o \in {"ok", "errNil", "errIdLive"} : DeployVirtualMachine(i, o)
    \/ \E i \in 1..count, o \in {"ok", "err"} : CreateTags(i, o)
    \/ \E i \in 1..count, o \in {"ok", "err"} : DestroyVirtualMachine(i, o)
    \/ \E i \in 1..count : TaskSend(i)
    \/ scaleUpReturn
    \/ managerScaleUpReturn("ok")

SpecSerial == InitSerial /\ [][NextSerial]_vars

\* serialized TargetSize calls alone, the listing succeeding
NextPoll ==
    \/ TargetSize
    \/ \E i \in 1..count, o \in {"ok", "errNil", "errIdLive"} : DeployVirtualMachine(i, o)
    \/ \E i \in 1..count, o \in {"ok", "err"} : CreateTags(i, o)
    \/ \E i \in 1..count, o \in {"ok", "err"} : DestroyVirtualMachine(i, o)
    \/ \E i \in 1..count : TaskSend(i)
    \/ scaleUpReturn
    \/ managerScaleUpReturn("ok")

SpecPoll == InitSerial /\ [][NextPoll]_vars

\* The group polled by TargetSize again and again: every remote call may fail,
\* the listing included; the goroutines of a scale-up keep running and the
\* caller keeps polling, so a step that can be taken is taken.
NextHeal ==
    \/ TargetSize
    \/ \E i \in 1..count, o \in {"ok", "errNil", "errEmptyId", "errIdLive", "errIdGone"} :
          DeployVirtualMachine(i, o)
    \/ \E i \in 1..count, o \in {"ok", "err"} : CreateTags(i, o)
    \/ \E i \in 1..count, o \in {"ok", "notfound", "err"} : DestroyVirtualMachine(i, o)
    \/ \E i \in 1..count : TaskSend(i)
    \/ scaleUpReturn
    \/ \E o \in {"ok", "listErr", "offeringErr", "zoneErr"} : managerScaleUpReturn(o)

SpecHeal == InitSerial /\ [][NextHeal]_vars /\ WF_vars(NextHeal)

\* ---------------------------------------------------------------- properties
Units == 1..count

\* createVM of unit i has returned
createVMReturned(i) == tasks[i].pc \in {"send", "done"}

\* the remote calls of unit i, as answered by the remote API
DeployFailedWithId(i) ==
    /\ Len(calls[i]) >= 1
    /\ calls[i][1].op = "deploy"
    /\ calls[i][1].err # Nil
    /\ calls[i][1].id # NoId

DeploySucceeded(i) ==
    /\ Len(calls[i]) >= 1
    /\ calls[i][1].op = "deploy"
    /\ calls[i][1].err = Nil

TagFailed(i) ==
    /\ DeploySucceeded(i)
    /\ Len(calls[i]) >= 2
    /\ calls[i][2].op = "tag"
    /\ calls[i][2].err # Nil

\* deploy and tag of unit i both succeeded
UnitOk(i) ==
    /\ DeploySucceeded(i)
    /\ Len(calls[i]) >= 2
    /\ calls[i][2].op = "tag"
    /\ calls[i][2].err = Nil

\* the remote answer e to a destroy of id counts as a successful destroy
DestroySucceeded(e, id) == e = Nil \/ e = NotFoundErr(id)

\* positions <<unit, k>> of the calls of kind op issued by the units
UnitCalls(op) ==
    {p \in UNION {{<<i, k>> : k \in 1..Len(calls[i])} : i \in Units} :
        calls[p[1]][p[2]].op = op}

DestroyCallsFor(id) == {p \in UnitCalls("destroy") : calls[p[1]][p[2]].id = id}

\* C1: a createVM whose deploy fails with an instance id issues exactly one
\* destroy for that id and no tag; it returns the deploy error unchanged when
\* the destroy succeeds, and otherwise 'unable to destroy ... after error
\* creating: <destroy error> - original error: <deploy error>'.
C1_DeployErrorWithIdIsRolledBack ==
    \A i \in Units :
        (createVMReturned(i) /\ DeployFailedWithId(i)) =>
            LET dep == calls[i][1]
            IN /\ Len(calls[i]) = 2
               /\ calls[i][2].op = "destroy"
               /\ calls[i][2].id = dep.id
               /\ Cardinality(DestroyCallsFor(dep.id)) = 1
               /\ UnitCalls("tag") \cap {<<i, 1>>, <<i, 2>>} = {}
               /\ IF DestroySucceeded(calls[i][2].err, dep.id)
                  THEN tasks[i].err = dep.err
                  ELSE tasks[i].err =
                        <<"unable to destroy cloudstack VM after error creating: ">>
                        \o calls[i][2].err \o <<" - original error: ">> \o dep.err

C1_Witness ==
    \E i \in Units :
        /\ createVMReturned(i)
        /\ DeployFailedWithId(i)
        /\ Len(calls[i]) = 2
        /\ ~DestroySucceeded(calls[i][2].err, calls[i][1].id)

\* C2: a createVM whose deploy succeeds and whose tag fails issues one destroy
\* for the deployed id, after the tag call; it returns the tag error unchanged
\* when the destroy succeeds, and otherwise 'unable to destroy ... after
\* tagging error: <destroy error> - original error: <tag error>'.
C2_TagErrorIsRolledBack ==
    \A i \in Units :
        (createVMReturned(i) /\ TagFailed(i)) =>
            LET id == calls[i][1].id
                tagErr == calls[i][2].err
            IN /\ Len(calls[i]) = 3
               /\ calls[i][3].op = "destroy"
               /\ calls[i][3].id = id
               /\ Cardinality(DestroyCallsFor(id)) = 1
               /\ IF DestroySucceeded(calls[i][3].err, id)
                  THEN tasks[i].err = tagErr
                  ELSE tasks[i].err =
                        <<"unable to destroy cloudstack VM after tagging error: ">>
                        \o calls[i][3].err \o <<" - original error: ">> \o tagErr

C2_Witness ==
    \E i \in Units :
        /\ createVMReturned(i)
        /\ TagFailed(i)
        /\ Len(calls[i]) = 3
        /\ ~DestroySucceeded(calls[i][3].err, calls[i][1].id)

\* the error e names both the failure orig and the failure of the last call,
\* a destroy, of unit i
NamesBothFailures(e, orig, i) ==
    LET last == calls[i][Len(calls[i])]
    IN /\ last.op = "destroy"
       /\ last.err # Nil
       /\ e # orig
       /\ Contains(e, orig)
       /\ Contains(e, last.err)

\* the call of unit i that failed first
FirstFailure(i) == IF calls[i][1].err # Nil THEN calls[i][1].err ELSE calls[i][2].err

\* C3: once createVM has returned, its instance is live and tagged only if
\* deploy and tag both succeeded and createVM returned nil; and when createVM
\* returned an error, its instance is not live or the error names both the
\* original failure and the failure of the destroy.
C3_HalfFinishedInstanceIsCleanedOrReported ==
    \A i \in Units :
        createVMReturned(i) =>
            LET id == calls[i][1].id
            IN /\ (id # NoId /\ id \in live /\ id \in tagged)
                      => (UnitOk(i) /\ tasks[i].err = Nil)
               /\ tasks[i].err # Nil
                      => \/ id = NoId
                         \/ id \notin live
                         \/ NamesBothFailures(tasks[i].err, FirstFailure(i), i)

C3_Witness ==
    \E i \in Units :
        /\ createVMReturned(i)
        /\ TagFailed(i)
        /\ calls[i][1].id \in live
        /\ tasks[i].err # Nil

\* C4: when csScaler.scaleUp(profile, count) returns, exactly count deploy
\* calls have been issued, and it returns nil if and only if deploy and tag of
\* every unit succeeded, in which case exactly count tag calls were issued.
C4_ScaleUpSucceedsIffEveryUnitDoes ==
    pc = "manager" =>
        /\ count > 0
        /\ Cardinality(UnitCalls("deploy")) = count
        /\ (suErr = Nil) <=> (\A i \in Units : UnitOk(i))
        /\ suErr = Nil => Cardinality(UnitCalls("tag")) = count

C4_Witness ==
    /\ pc = "manager"
    /\ count = 2
    /\ suErr # Nil
    /\ \E i \in Units : UnitOk(i)

FailedUnits == {i \in Units : ~UnitOk(i)}

\* the orders in which the units of F can be listed
Orders(F) ==
    {f \in [1..Cardinality(F) -> F] : \A a, b \in 1..Cardinality(F) : f[a] = f[b] => a = b}

\* C5: when k >= 1 units of a scaleUp fail, it returns one error 'error
\* creating VMs: ...' made of exactly the k messages of the failed units, in
\* some order, joined by ' - '.
C5_AggregateErrorListsEveryFailedUnit ==
    (pc = "manager" /\ FailedUnits # {}) =>
        \E ord \in Orders(FailedUnits) :
            suErr = <<"error creating VMs: ">>
                    \o Join([j \in 1..Cardinality(FailedUnits) |-> tasks[ord[j]].err], " - ")

C5_Witness ==
    /\ pc = "manager"
    /\ Cardinality(FailedUnits) = 2
    /\ errCh = <<>>
    /\ suErr = <<"error creating VMs: ">> \o tasks[2].err \o <<" - ">> \o tasks[1].err
    /\ tasks[1].err # tasks[2].err

\* C6: no destroy call is issued for an instance whose own deploy and tag
\* succeeded, and when scaleUp returns an error every such instance of the
\* batch is live and tagged.
C6_NoGroupLevelRollback ==
    \A i \in Units :
        UnitOk(i) =>
            /\ DestroyCallsFor(calls[i][1].id) = {}
            /\ (pc = "manager" /\ suErr # Nil)
                   => (calls[i][1].id \in live /\ calls[i][1].id \in tagged)

C6_Witness ==
    /\ pc = "manager"
    /\ suErr # Nil
    /\ \E i \in Units : UnitOk(i)
    /\ \E i \in Units : TagFailed(i)


\* a node-group operation op has just returned
OpReturned(op) == pc = "idle" /\ ret.op = op

\* C7: when the scale-up of 2 units of a node group has exactly one unit
\* fail, the instance of the other unit is in the bound instance list when
\* TargetSize or IncreaseSize returns.
C7_SuccessfulUnitIsBoundAfterPartialFailure ==
    ((OpReturned("TargetSize") \/ OpReturned("IncreaseSize"))
        /\ count = 2 /\ Cardinality(FailedUnits) = 1) =>
        \A i \in Units : UnitOk(i) => calls[i][1].id \in Range(vms)

\* C8: csScaler.scaleUp returns only after every one of its goroutines has
\* finished createVM, its compensating destroy included, and handed in its
\* result; a finished goroutine issues no further remote call.
C8_ScaleUpReturnsAfterEveryTask ==
    pc \in {"manager", "idle"} =>
        /\ wg = 0
        /\ \A i \in Units : tasks[i].pc = "done"

C8_Witness ==
    /\ pc = "manager"
    /\ count = 2
    /\ \E i \in Units : Len(calls[i]) = 3
    /\ \E i \in Units : Len(calls[i]) = 1

\* the listing of refreshNodeGroupVms was issued and succeeded
ListSucceeded == \E k \in 1..Len(calls[0]) : calls[0][k].op = "list" /\ calls[0][k].err = Nil

\* no remote call was issued by the operation
NoRemoteCall == issued = NoneIssued /\ calls[0] = <<>>

\* C9 as stated: TargetSize on c < minSize bound instances runs one scale-up
\* of minSize - c units and, when every create, tag and the listing succeed,
\* returns minSize; on c >= minSize it issues no remote call and returns c.
C9_TargetSizeReturnsMinSize ==
    OpReturned("TargetSize") =>
        LET c == Len(call0.vms)
        IN IF c < MinSize
           THEN /\ batch = 1
                /\ count = MinSize - c
                /\ issued.deploy = MinSize - c
                /\ ((\A i \in Units : UnitOk(i)) /\ ListSucceeded) => ret.size = MinSize
           ELSE /\ NoRemoteCall
                /\ ret.size = c

\* C9 (amended): TargetSize on c < minSize bound instances runs one scale-up
\* of minSize - c units and, when every create, tag and the listing succeed,
\* returns the number of live tagged instances of the group, which is minSize
\* if the bound list held exactly the live tagged instances at the call; on
\* c >= minSize it issues no remote call and returns c.
C9_TargetSizeReturnsListedSize ==
    OpReturned("TargetSize") =>
        LET c == Len(call0.vms)
        IN IF c < MinSize
           THEN /\ batch = 1
                /\ count = MinSize - c
                /\ issued.deploy = MinSize - c
                /\ ((\A i \in Units : UnitOk(i)) /\ ListSucceeded) =>
                      /\ ret.size = Cardinality(live \cap tagged)
                      /\ Range(call0.vms) = call0.lt => ret.size = MinSize
           ELSE /\ NoRemoteCall
                /\ ret.size = c

C9_Witness ==
    /\ OpReturned("TargetSize")
    /\ Len(call0.vms) = 1
    /\ MinSize = 2
    /\ \A i \in Units : UnitOk(i)
    /\ ListSucceeded
    /\ Range(call0.vms) = call0.lt
    /\ ret.size = 2

\* C10: TargetSize never returns an error, whatever the outcome of the
\* self-healing scale-up and of the listing that follows it.
C10_TargetSizeReturnsNoError ==
    /\ tsRet.err = Nil
    /\ OpReturned("TargetSize") => ret.err = Nil

C10_Witness ==
    /\ OpReturned("TargetSize")
    /\ suErr # Nil
    /\ ret.err = Nil

\* the units whose deploy and tag succeeded
OkUnits == {i \in Units : UnitOk(i)}

\* the units the self-healing scale-up of TargetSize was started with
HealUnits(c) == IF c < MinSize THEN MinSize - c ELSE 0

\* C11: when the self-healing scale-up inside TargetSize fails for some units
\* (the bound list holding the group's live tagged instances at the call), the
\* size TargetSize returns is the number of instances of the group that are
\* live and tagged when it returns: the previously bound instances plus the
\* units whose create and tag succeeded.
C11_TargetSizeReturnsAchievedSize ==
    (OpReturned("TargetSize") /\ batch = 1 /\ FailedUnits # {}
        /\ Range(call0.vms) = call0.lt) =>
        /\ ret.size = Cardinality(live \cap tagged)
        /\ ret.size = Len(call0.vms) + Cardinality(OkUnits)

\* C12: IncreaseSize(delta) with delta <= 0 returns 'delta must be positive'
\* without issuing a remote call and without changing the bound list.
C12_NonPositiveDeltaIsRejected ==
    (OpReturned("IncreaseSize") /\ delta <= 0) =>
        /\ ret.err = DeltaErr(delta)
        /\ NoRemoteCall
        /\ batch = 0
        /\ vms = call0.vms

C12_Witness ==
    /\ OpReturned("IncreaseSize")
    /\ delta = 0
    /\ ret.err = DeltaErr(0)
    /\ Len(vms) = 1

\* C13 as stated: IncreaseSize(delta), delta > 0, on c bound instances returns
\* an error when c + delta exceeds maxSize, and otherwise runs a scale-up of
\* delta units and issues exactly delta deploy calls in total.
C13_IncreaseSizeDeploysDelta ==
    (OpReturned("IncreaseSize") /\ delta > 0) =>
        LET c == Len(call0.vms)
        IN IF c + delta > MaxSize
           THEN ret.err # Nil
           ELSE /\ count = delta
                /\ issued.deploy = delta

\* C13 (amended): IncreaseSize(delta), delta > 0, takes the size s from
\* TargetSize, which on c < minSize bound instances first runs the
\* self-healing scale-up of minSize - c units and on c >= minSize is c; it
\* returns the 'size increase is too large' error when s + delta exceeds
\* maxSize, and otherwise runs a scale-up of exactly delta units, so that the
\* call issues delta deploy calls on top of those of the self-healing.
C13_IncreaseSizeDeploysDeltaAfterHealing ==
    (OpReturned("IncreaseSize") /\ delta > 0) =>
        LET c == Len(call0.vms)
            s == tsRet.size
        IN /\ c >= MinSize => s = c
           /\ IF s + delta > MaxSize
              THEN /\ ret.err = TooLargeErr(s, s + delta, MaxSize)
                   /\ issued.deploy = HealUnits(c)
                   /\ batch = (IF c < MinSize THEN 1 ELSE 0)
              ELSE /\ count = delta
                   /\ Cardinality(UnitCalls("deploy")) = delta
                   /\ issued.deploy = HealUnits(c) + delta

C13_Witness ==
    /\ OpReturned("IncreaseSize")
    /\ delta = 1
    /\ Len(call0.vms) = 0
    /\ MinSize = 1
    /\ tsRet.size = 1
    /\ batch = 2
    /\ issued.deploy = 2
    /\ ret.err = Nil

\* the instances the destroy calls of the calling goroutine were issued for
DestroyedIds == {calls[0][k].id : k \in 1..Len(calls[0])}

\* the bound list is the list of the call without the instances of D
BoundListLost(D) ==
    /\ Range(vms) = Range(call0.vms) \ D
    /\ Len(vms) = Len(call0.vms) - Cardinality(D)

\* DeleteNodes was called with the single external id prefix + v of a bound v
SingleBoundNode(v) ==
    /\ Len(nodes) = 1
    /\ v \in Range(call0.vms)
    /\ nodes[1].ProviderID = vmProfile.providerIDPrefix \o IdStr(v)

\* C14 as stated: DeleteNodes called with the single external id P+v, v bound
\* and P the group's prefix, issues exactly one destroy call, for v, and
\* afterwards the bound list holds exactly the previous instances minus v.
C14_PrefixedNodeIsDestroyedAndRemoved ==
    \A v \in 1..MaxBound :
        (OpReturned("DeleteNodes") /\ SingleBoundNode(v)) =>
            /\ Len(calls[0]) = 1
            /\ calls[0][1].op = "destroy"
            /\ calls[0][1].id = v
            /\ BoundListLost({v})

\* C14 (amended): DeleteNodes called with the single external id P+v, v bound
\* and P the group's prefix, issues exactly one destroy call, for v; when the
\* destroy succeeds or answers that the instance does not exist, DeleteNodes
\* returns nil and the bound list holds exactly the previous instances minus
\* v; when the destroy fails otherwise, DeleteNodes returns its error and the
\* bound list is unchanged.
C14_PrefixedNodeIsDestroyedAndRemovedUnlessDestroyFails ==
    \A v \in 1..MaxBound :
        (OpReturned("DeleteNodes") /\ SingleBoundNode(v)) =>
            /\ Len(calls[0]) = 1
            /\ calls[0][1].op = "destroy"
            /\ calls[0][1].id = v
            /\ IF DestroySucceeded(calls[0][1].err, v)
               THEN /\ ret.err = Nil
                    /\ BoundListLost({v})
               ELSE /\ ret.err = calls[0][1].err
                    /\ vms = call0.vms

C14_Witness ==
    /\ OpReturned("DeleteNodes")
    /\ vmProfile.providerIDPrefix = <<"x://">>
    /\ call0.vms = <<1, 2>>
    /\ SingleBoundNode(1)
    /\ calls[0] = <<Call("destroy", 1, Nil)>>
    /\ vms = <<2>>

\* DeleteNodes returned the error 'node (...) not found in nodeGroup ...'
NodeNotFoundReturned ==
    /\ OpReturned("DeleteNodes")
    /\ ret.err # Nil
    /\ Head(ret.err) = "node ("

EnabledRefreshed == refreshed.called /\ refreshed.before.useProjects

\* C20: on an enabled cache with TTL > 0, a refresh issues the remote list
\* call if and only if it is the first refresh or no listing has succeeded
\* yet or it happens more than TTL after the last successful one (so two
\* refreshes within the TTL issue one list call and a refresh after the TTL
\* issues a second one), and a refresh that is skipped leaves the cached
\* sequence and the timestamp unchanged.
C20_RefreshListsOncePerTTL ==
    EnabledRefreshed =>
        /\ refreshed.before.maxAge > 0
        /\ refreshed.listed <=>
              \/ refreshed.okAt = ZeroTime
              \/ refreshed.at - refreshed.okAt > refreshed.before.maxAge
        /\ ~refreshed.listed =>
              /\ projects.projects = refreshed.before.projects
              /\ projects.lastUpdated = refreshed.before.lastUpdated
              /\ refreshed.err = Nil

\* the selector set wanted is satisfied by metadata: each of its pairs is in
\* metadata with the same value
Satisfied(wanted, metadata) ==
    \A k \in DOMAIN wanted : k \in DOMAIN metadata /\ metadata[k] = wanted[k]

\* C19: a definition is accepted if and only if its metadata has the three
\* required keys nodeGroupName, minNodes, maxNodes and satisfies at least one
\* configured selector set; with no selector set nothing is accepted.
C19_ValidIffRequiredKeysAndOneSelector ==
    checked.called =>
        /\ checked.valid <=>
              /\ {"nodeGroupName", "minNodes", "maxNodes"} \subseteq DOMAIN checked.metadata
              /\ \E i \in 1..Len(labelConfig) :
                    Satisfied(labelConfig[i].Selector, checked.metadata)
        /\ Len(labelConfig) = 0 => ~checked.valid

C19_Witness ==
    /\ checked.called
    /\ checked.valid
    /\ Len(labelConfig) = 2
    /\ ~Satisfied(labelConfig[1].Selector, checked.metadata)
    /\ Satisfied(labelConfig[2].Selector, checked.metadata)
    /\ DOMAIN labelConfig[1].Selector = {"a", "x"}

\* the definitions the pass of the last Refresh enumerates: those of the root
\* partition, then those of each cached project in stored order, each
\* partition's in listing order
RECURSIVE EnumeratedFrom(_, _)
EnumeratedFrom(parts, k) ==
    IF k > Len(parts) THEN <<>>
    ELSE AspsFrom(world, parts[k], 1) \o EnumeratedFrom(parts, k + 1)

Enumerated == EnumeratedFrom(<<"">> \o projects.projects, 1)

\* the metadata of the definition asp in the last Refresh
MetadataOf(asp) == resourceDetailsToMetadata(world.details[asp.Id])

\* the definition has the required keys and matches the selector a=b
ValidDefinition(asp) ==
    /\ {"nodeGroupName", "minNodes", "maxNodes"} \subseteq DOMAIN MetadataOf(asp)
    /\ "a" \in DOMAIN MetadataOf(asp)
    /\ MetadataOf(asp)["a"] = "b"

\* the last Refresh returned an error
RefreshFailed == returned.called /\ returned.err # Nil

\* C16: whenever Refresh returns an error, the installed node-group set after
\* the call is the set installed before the call.
C16_FailedRefreshKeepsInstalledGroups ==
    RefreshFailed => nodeGroups = returned.before

\* positions of the enumeration whose definitions are valid and carry name
ValidNamed(name) ==
    {k \in 1..Len(Enumerated) :
        /\ ValidDefinition(Enumerated[k])
        /\ MetadataOf(Enumerated[k])["nodeGroupName"] = name}

\* the last Refresh met a second valid definition of a name: every remote
\* call before it succeeded
ConflictMet ==
    /\ returned.called
    /\ world.fail = NoFail
    /\ \E name \in {"ng1", "ng2"} : Cardinality(ValidNamed(name)) >= 2

\* the first two valid definitions of the first name defined twice
FirstConflict ==
    LET second(name) ==
            LET S == ValidNamed(name)
                first == CHOOSE k \in S : \A l \in S : k <= l
            IN CHOOSE k \in S \ {first} : \A l \in S \ {first} : k <= l
        names == {n \in {"ng1", "ng2"} : Cardinality(ValidNamed(n)) >= 2}
        name == CHOOSE n \in names : \A o \in names : second(n) <= second(o)
        S == ValidNamed(name)
        first == CHOOSE k \in S : \A l \in S : k <= l
    IN [name |-> name, earlier |-> Enumerated[first].Id,
        later |-> Enumerated[second(name)].Id]

\* C17: when a pass meets two valid definitions of one group name, Refresh
\* returns the conflict error naming the later-seen id first and the
\* earlier-registered id second, and no partial group set is installed: the
\* installed set is the one of before the call.
C17_ConflictFailsThePassAndInstallsNothing ==
    ConflictMet =>
        /\ returned.err = ConflictErr(FirstConflict.name, FirstConflict.later,
                                      FirstConflict.earlier)
        /\ nodeGroups = returned.before

\* the group a valid definition is installed as
GroupOf(asp) ==
    [vmProfile |-> [asp |-> asp, aspMetadata |-> MetadataOf(asp),
                    offering |-> [Id |-> asp.Serviceofferingid],
                    zone |-> [Id |-> asp.Zoneid]],
     vms |-> TaggedVms(MetadataOf(asp)["nodeGroupName"], asp.Projectid)]

\* the valid definitions of the enumeration, in its order, as groups
ExpectedGroups ==
    LET valid == SelectSeq(Enumerated, ValidDefinition)
    IN [k \in 1..Len(valid) |-> GroupOf(valid[k])]

ListingFailed == refreshed.called /\ refreshed.listed /\ refreshed.err # Nil

\* C21: when the ListProjects call of a refresh fails, refresh returns that
\* error, the cached projects and lastUpdated are those of before the call,
\* and the next refresh issues the ListProjects call again.
C21_FailedListingLeavesCacheAndIsRetried ==
    /\ ListingFailed =>
          /\ refreshed.err = ListProjectsErr
          /\ projects.projects = refreshed.before.projects
          /\ projects.lastUpdated = refreshed.before.lastUpdated
    /\ refreshed.prevFailed => refreshed.listed

C21_Witness ==
    /\ refreshed.prevFailed
    /\ refreshed.listed
    /\ refreshed.before.lastUpdated # ZeroTime
    /\ refreshed.before.projects # <<>>
    /\ refreshed.err = Nil

\* C22: for a disabled cache, in every reachable state the cached projects
\* are empty and no refresh (called directly or by forEach) has issued the
\* ListProjects call; forEach on it calls its function for the root
\* partition "" exactly once and for nothing else.
C22_DisabledCacheNeverListsAndVisitsRoot ==
    ~projects.useProjects =>
        /\ projects.projects = <<>>
        /\ ~refreshed.listed
        /\ visited.called => visited.ids = <<"">>

C22_Witness ==
    /\ ~projects.useProjects
    /\ visited.called
    /\ visited.ids = <<"">>
    /\ refreshed.called
    /\ now > projects.maxAge

C24_ForEachStopsAtFirstFailure ==
    /\ (visited.called /\ visited.refreshErr # Nil) =>
          /\ visited.ids = <<>>
          /\ visited.err = visited.refreshErr
          /\ visited.err = ListProjectsErr
    /\ (visited.called /\ visited.refreshErr = Nil /\ visited.failing # {}) =>
          LET parts == <<"">> \o visited.cached
              bad == {k \in 1..Len(parts) : parts[k] \in visited.failing}
              first == CHOOSE k \in bad : \A l \in bad : k <= l
          IN /\ visited.ids = SubSeq(parts, 1, first)
             /\ visited.err = VisitErr(parts[first])

C24_Witness ==
    /\ visited.called
    /\ visited.refreshErr = Nil
    /\ visited.cached # <<>>
    /\ visited.failing = {""} \cup Range(visited.cached)
    /\ visited.ids = <<"">>
    /\ visited.err = VisitErr("")

\* the last call was destroyVM(vmID), the remote API answering rerr
DestroyVMAnswered(vmID, rerr) ==
    /\ answer.op = "destroyVM"
    /\ answer.arg = <<vmID>>
    /\ answer.calls[1].err = rerr

\* C25: destroyVM(id) issues exactly one destroy call, for id; it returns nil
\* when the call succeeds or fails with the not-found error of that same id,
\* and any other error unchanged; destroyVM on an instance an earlier
\* destroyVM has destroyed, which the remote API reports as not found,
\* returns nil.
C25_DestroyVMForgivesNotFoundOnly ==
    answer.op = "destroyVM" =>
        LET id == answer.arg[1]
            rerr == answer.calls[1].err
        IN /\ Len(answer.calls) = 1
           /\ answer.calls[1].op = "destroy"
           /\ answer.calls[1].id = id
           /\ (rerr = Nil \/ rerr = NotFoundErr(id)) => answer.err = Nil
           /\ (rerr # Nil /\ rerr # NotFoundErr(id)) => answer.err = rerr
           /\ (id \in answer.gone /\ rerr = NotFoundErr(id)) => answer.err = Nil

C25_Witness ==
    /\ answer.op = "destroyVM"
    /\ answer.arg[1] \in answer.gone
    /\ answer.calls[1].err = NotFoundErr(answer.arg[1])
    /\ answer.err = Nil

TableState(label) ==
    CASE label \in {"Starting", "Migrating"} -> InstanceCreating
      [] label = "Running" -> InstanceRunning
      [] label \in {"Stopping", "Stopped", "Destroyed", "Expunging", "Shutdowned"}
            -> InstanceDeleting
      [] OTHER -> NoInstanceState

Named(label) ==
    label \in {"Starting", "Migrating", "Running", "Stopping", "Stopped",
               "Destroyed", "Expunging", "Shutdowned"}

\* C27: Nodes() returns one instance per bound handle, in bound-list order;
\* its id is the provider-id prefix followed by the raw id, its state is
\* creating for Starting/Migrating, running for Running, deleting for
\* Stopping/Stopped/Destroyed/Expunging/Shutdowned, and for any other label
\* no state and the error info 'unexpected vm state: <label>'; Nodes()
\* returns no error and leaves the bound list as it was.
C27_NodesMapsBoundListInOrder ==
    answer.op = "Nodes" =>
        /\ answer.err = Nil
        /\ vms = answer.before.vms
        /\ Len(answer.value) = Len(vms)
        /\ \A k \in 1..Len(vms) :
              LET inst == answer.value[k]
                  label == answer.arg[k]
              IN /\ inst.Id = vmProfile.providerIDPrefix \o <<ToString(vms[k])>>
                 /\ inst.Status.State = TableState(label)
                 /\ Named(label) => inst.Status.ErrorInfo.isNil
                 /\ ~Named(label) =>
                       /\ ~inst.Status.ErrorInfo.isNil
                       /\ inst.Status.ErrorInfo.ErrorMessage =
                              <<"unexpected vm state: ", label>>

C27_Witness ==
    /\ answer.op = "Nodes"
    /\ Len(answer.value) = 2
    /\ vms = <<2, 1>>
    /\ vmProfile.providerIDPrefix # <<>>
    /\ answer.arg = <<"Stopped", "Error">>
    /\ answer.value[1].Status.State = InstanceDeleting
    /\ answer.value[2].Status.State = NoInstanceState

\* the i-th installed group has a bound instance whose prefixed id is pid
BindsExactly(i, pid) ==
    LET meta == nodeGroups[i].vmProfile.aspMetadata
        prefix == IF "providerIDPrefix" \in DOMAIN meta
                  THEN <<meta["providerIDPrefix"]>> ELSE <<>>
    IN \E k \in 1..Len(nodeGroups[i].vms) :
           prefix \o <<ToString(nodeGroups[i].vms[k])>> = pid

\* C28: NodeGroupForNode returns, without error, the first installed group
\* that has a bound instance whose prefixed provider id equals the node's
\* provider id exactly, and nil without error when no installed group has one.
C28_NodeGroupForNodeReturnsFirstExactMatch ==
    answer.op = "NodeGroupForNode" =>
        LET pid == answer.arg[1].ProviderID
            matching == {i \in 1..Len(nodeGroups) : BindsExactly(i, pid)}
        IN /\ answer.err = Nil
           /\ nodeGroups = answer.before.nodeGroups
           /\ matching = {} => answer.value = <<>>
           /\ matching # {} =>
                 /\ Len(answer.value) = 1
                 /\ answer.value[1] \in matching
                 /\ \A j \in matching : answer.value[1] <= j

C28_Witness ==
    /\ answer.op = "NodeGroupForNode"
    /\ Len(nodeGroups) = 2
    /\ answer.value = <<2>>
    /\ answer.arg[1].ProviderID = <<"x://", "1">>
    /\ nodeGroups[1].vms = <<1>>
    /\ nodeGroups[2].vms = <<1, 2>>

\* positions of the calls of kind op in the log of unit i
CallsOf(i, op) == {k \in 1..Len(calls[i]) : calls[i][k].op = op}

\* C29: within one createVM at most one deploy, one tag and one destroy call
\* are issued; a destroy is issued only right after a failed deploy that
\* returned an id or right after a failed tag; a createVM whose deploy and
\* tag both succeed issues no destroy.
C29_CreateVMNeverRetries ==
    \A i \in Units :
        /\ Cardinality(CallsOf(i, "deploy")) <= 1
        /\ Cardinality(CallsOf(i, "tag")) <= 1
        /\ Cardinality(CallsOf(i, "destroy")) <= 1
        /\ \A k \in CallsOf(i, "destroy") :
              /\ k > 1
              /\ calls[i][k - 1].err # Nil
              /\ \/ calls[i][k - 1].op = "deploy" /\ calls[i][k - 1].id # NoId
                 \/ calls[i][k - 1].op = "tag"
        /\ (createVMReturned(i) /\ UnitOk(i)) =>
              /\ CallsOf(i, "destroy") = {}
              /\ Len(calls[i]) = 2

C29_Witness ==
    \E i, j \in Units :
        /\ createVMReturned(i)
        /\ UnitOk(i)
        /\ createVMReturned(j)
        /\ TagFailed(j)
        /\ Len(calls[j]) = 3
        /\ calls[j][3].err = DestroyErr(calls[j][1].id)

\* the deploy of unit i failed and returned no instance id
DeployFailedWithoutId(i) ==
    /\ Len(calls[i]) >= 1
    /\ calls[i][1].op = "deploy"
    /\ calls[i][1].err # Nil
    /\ calls[i][1].id = NoId

\* C30: a createVM whose deploy fails and returns no instance id (nil
\* response or empty id) issues neither a tag nor a destroy call and returns
\* the deploy error unchanged.
C30_DeployErrorWithoutIdReturnsAtOnce ==
    \A i \in Units :
        DeployFailedWithoutId(i) =>
            /\ Len(calls[i]) = 1
            /\ createVMReturned(i)
            /\ tasks[i].err = calls[i][1].err
            /\ tasks[i].err = DeployErr(i)

C30_Witness ==
    \E i, j \in Units :
        /\ DeployFailedWithoutId(i)
        /\ tasks[i].vm.isNil
        /\ DeployFailedWithoutId(j)
        /\ ~tasks[j].vm.isNil
        /\ tasks[i].pc = "done"
        /\ tasks[j].pc = "done"

\* some createVM task of the running scaleUp has not handed in its result
TaskInFlight == \E i \in Units : tasks[i].pc # "done"

\* C31: while a createVM task of a scaleUp fan-out is in flight no step writes
\* the bound list, the profile, the project cache or the installed groups;
\* the bound list is written only by the re-listing of refreshNodeGroupVms,
\* which cloudstackManager.scaleUp reaches after the join barrier of
\* csScaler.scaleUp (every task done, the wait-group counter at zero).
C31_BoundListWrittenOnlyAfterJoin ==
    [][/\ TaskInFlight =>
            /\ vms' = vms
            /\ vmProfile' = vmProfile
            /\ projects' = projects
            /\ nodeGroups' = nodeGroups
       /\ vms' # vms =>
            /\ pc = "manager"
            /\ wg = 0
            /\ ~TaskInFlight]_vars

\* IncreaseSize has returned after a fan-out of two tasks and the re-listing
\* has written the bound list
C31_Witness ==
    /\ pc = "idle"
    /\ ret.op = "IncreaseSize"
    /\ count = 2
    /\ \A i \in Units : UnitOk(i)
    /\ vms # call0.vms
    /\ Len(vms) = Len(call0.vms) + 2

\* C32 as stated: on a group with minSize <= maxSize whose bound list was its
\* set of live tagged instances, of at most maxSize entries, no sequence of
\* serialized IncreaseSize and TargetSize calls with per-unit failures brings
\* the number of live instances carrying the group's tag above maxSize.
C32_LiveTaggedNeverExceedsMaxSize == Cardinality(live \cap tagged) <= MaxSize

\* C33 as stated: across serialized TargetSize calls with per-unit failures,
\* TargetSize starts a scale-up only when fewer than minSize live instances
\* carry the group's tag, and the number of live tagged instances never
\* exceeds the larger of minSize and its initial value (at most MaxInitVms).
C33_SelfHealingNeverOverProvisions ==
    /\ (pc = "scaleUp" /\ frame = "TargetSize") => Cardinality(call0.lt) < MinSize
    /\ Cardinality(live \cap tagged) <= Max(MinSize, MaxInitVms)

\* every deploy, tag and listing call of the running or last TargetSize has
\* succeeded
CallsSucceed ==
    \A t \in DOMAIN calls : \A k \in 1..Len(calls[t]) :
        calls[t][k].op \in {"deploy", "tag", "list"} => calls[t][k].err = Nil

\* C34: when the group is polled by TargetSize again and again and from some
\* point on every deploy, tag and listing call succeeds, then from some point
\* on the bound list holds at least minSize instances, and keeps doing so
\* under the further TargetSize calls.
C34_SelfHealingReachesFloor == (<>[]CallsSucceed) => <>[](Len(vms) >= MinSize)

\* a TargetSize whose calls all succeeded has brought the bound list to
\* minSize after an earlier scale-up had left an instance unbound
C34_Witness ==
    /\ pc = "idle"
    /\ ret.op = "TargetSize"
    /\ CallsSucceed
    /\ issued.deploy > 0
    /\ Cardinality(call0.lt) > Len(call0.vms)
    /\ Len(call0.vms) < MinSize
    /\ Len(vms) >= MinSize

\* IncreaseSize has returned the 'size increase is too large' error
TooLargeReturned ==
    /\ OpReturned("IncreaseSize")
    /\ delta > 0
    /\ ret.err = TooLargeErr(tsRet.size, tsRet.size + delta, MaxSize)

\* C35 as stated: an IncreaseSize call rejected because the current size plus
\* delta exceeds maxSize has issued no deploy, tag or destroy call and has
\* left the bound list unchanged.
C35_TooLargeIssuesNoCall ==
    TooLargeReturned => (issued = NoneIssued /\ vms = call0.vms)

\* C35 (amended): an IncreaseSize call rejected as too large has started no
\* scale-up for delta; on c >= minSize bound instances it has issued no remote
\* call and left the bound list unchanged; on c < minSize its TargetSize has
\* run the self-healing scale-up of minSize - c units, whose deploy, tag and
\* destroy calls are the only ones issued, and the bound list is what the
\* listing after that scale-up reported when that listing was issued and
\* succeeded, and unchanged otherwise.
C35_TooLargeIssuesNoCallBeyondHealing ==
    TooLargeReturned =>
        LET c == Len(call0.vms)
        IN /\ c >= MinSize => (NoRemoteCall /\ batch = 0 /\ vms = call0.vms)
           /\ c < MinSize =>
                /\ batch = 1
                /\ count = MinSize - c
                /\ issued.deploy = MinSize - c
                /\ issued.tag <= MinSize - c
                /\ issued.destroy <= MinSize - c
           /\ vms = (IF ListSucceeded THEN ListVirtualMachines ELSE call0.vms)

\* IncreaseSize(1) on an empty group with minSize 1 and maxSize 1: the
\* self-healing has deployed, tagged and bound an instance before the call
\* was rejected
C35_Witness ==
    /\ TooLargeReturned
    /\ Len(call0.vms) = 0
    /\ MinSize = 1
    /\ issued.deploy = 1
    /\ issued.tag = 1
    /\ Len(vms) = 1

\* the instance the k-th external id of the DeleteNodes call names in the
\* bound list of the call (NoId: none)
NamedVm(k) == vmForNode(nodes[k], call0.vms)

\* the instances the external ids before position i name
NamedBefore(i) == {NamedVm(k) : k \in 1..(i - 1)}

\* a destroy call for the instance v has succeeded during the call
DestroySucceededFor(v) ==
    \E k \in 1..Len(calls[0]) :
        calls[0][k].op = "destroy" /\ calls[0][k].id = v /\ calls[0][k].err = Nil

\* DeleteNodes has returned an error at position nodeAt
DeleteFailed == OpReturned("DeleteNodes") /\ ret.err # Nil

\* C36 as stated: when DeleteNodes returns an error at position i, the
\* instance of every id before i has been destroyed and removed from the
\* bound list, and the instances of the id at i and of all later ids have had
\* no destroy call succeed and are still in the bound list.
C36_StopsAtFirstFailure ==
    DeleteFailed =>
        /\ \A k \in 1..(nodeAt - 1) :
              NamedVm(k) \notin live /\ NamedVm(k) \notin Range(vms)
        /\ \A k \in nodeAt..Len(nodes) :
              NamedVm(k) # NoId =>
                  (~DestroySucceededFor(NamedVm(k)) /\ NamedVm(k) \in Range(vms))

\* C36 (amended): DeleteNodes takes the external ids in order: when it returns
\* an error at position i, it has issued one destroy call for the instance of
\* each id before i, in that order, and at most one more, for the instance of
\* the id at i; every instance named before i is gone from the remote side
\* and from the bound list, and the bound list has lost nothing else; the
\* instances named at i or later that no id before i names have had no
\* destroy call succeed and are still bound.
C36_StopsAtFirstFailureOnDistinctIds ==
    DeleteFailed =>
        /\ \A k \in 1..(nodeAt - 1) :
              /\ NamedVm(k) # NoId
              /\ NamedVm(k) \notin live
              /\ NamedVm(k) \notin Range(vms)
        /\ Len(calls[0]) \in {nodeAt - 1, nodeAt}
        /\ \A k \in 1..Len(calls[0]) :
              calls[0][k].op = "destroy" /\ calls[0][k].id = NamedVm(k)
        /\ BoundListLost(NamedBefore(nodeAt))
        /\ \A k \in nodeAt..Len(nodes) :
              (NamedVm(k) # NoId /\ NamedVm(k) \notin NamedBefore(nodeAt)) =>
                  (~DestroySucceededFor(NamedVm(k)) /\ NamedVm(k) \in Range(vms))

\* DeleteNodes of two bound instances: the first was destroyed and removed,
\* the destroy of the second failed and it is still bound
C36_Witness ==
    /\ DeleteFailed
    /\ Len(nodes) = 2
    /\ nodeAt = 2
    /\ Len(call0.vms) = 2
    /\ NamedVm(1) # NoId
    /\ NamedVm(2) \notin {NoId, NamedVm(1)}
    /\ Len(calls[0]) = 2
    /\ vms = <<NamedVm(2)>>

\* the k-th destroy call of DeleteNodes was answered with the not-found error
\* of its instance
AnsweredNotFound(k) ==
    /\ calls[0][k].op = "destroy"
    /\ calls[0][k].err = NotFoundErr(calls[0][k].id)

\* C37: a destroy call of DeleteNodes that fails with the not-found error of
\* its instance counts as a success: the instance is removed from the bound
\* list and the loop goes on, so that DeleteNodes called with the single
\* external id of a bound instance that is gone remotely returns nil and
\* leaves the bound list that a successful destroy would leave.
C37_VanishedInstanceIsRemoved ==
    /\ nodes # <<>> =>
          \A k \in 1..Len(calls[0]) :
              AnsweredNotFound(k) =>
                  /\ calls[0][k].id \notin Range(vms)
                  /\ nodeAt > k
                  /\ ret.err # calls[0][k].err
    /\ \A v \in 1..MaxBound :
          (OpReturned("DeleteNodes") /\ SingleBoundNode(v) /\ v \notin call0.lt) =>
              /\ Len(calls[0]) = 1
              /\ (AnsweredNotFound(1) \/ calls[0][1].err = DestroyErr(v))
              /\ AnsweredNotFound(1) =>
                    /\ ret.err = Nil
                    /\ vms = removeVM(call0.vms, v)
                    /\ BoundListLost({v})

\* DeleteNodes was called with the prefixed id of the first of two bound
\* instances, which was gone remotely: it returned nil and the other instance
\* is the bound list
C37_Witness ==
    /\ OpReturned("DeleteNodes")
    /\ Len(call0.vms) = 2
    /\ SingleBoundNode(call0.vms[1])
    /\ vmProfile.providerIDPrefix # <<>>
    /\ AnsweredNotFound(1)
    /\ ret.err = Nil
    /\ vms = <<call0.vms[2]>>

\* C38: on a bound list of pairwise distinct ids, removeVM(id) for a bound id
\* shortens the list by exactly one and leaves exactly the previous ids other
\* than id, in whatever order; removeVM for an id that is not bound leaves the
\* list as it was.
C38_SwapRemovalPreservesMembership ==
    answer.op = "removeVM" =>
        LET bound == answer.before.vms
            id == answer.arg[1]
        IN IF id \in Range(bound)
           THEN /\ Len(vms) = Len(bound) - 1
                /\ Range(vms) = Range(bound) \ {id}
                /\ \A a, b \in 1..Len(vms) : vms[a] = vms[b] => a = b
           ELSE vms = bound

\* removeVM of the first of several bound instances has moved the last one
\* into its place
C38_Witness ==
    /\ answer.op = "removeVM"
    /\ Len(answer.before.vms) >= 2
    /\ answer.arg[1] = answer.before.vms[1]
    /\ vms[1] = answer.before.vms[Len(answer.before.vms)]

\* C39: in every state reachable by any sequence of Refresh calls, successful
\* or failed, the names of the node groups installed in the manager are
\* pairwise distinct.
C39_InstalledNamesAreDistinct ==
    \A i, j \in 1..Len(nodeGroups) :
        ProfileId(nodeGroups[i].vmProfile) = ProfileId(nodeGroups[j].vmProfile)
            => i = j

\* a pass that ended at a name defined twice, after a pass that had installed
\* two groups: the group registered before the conflict is what is installed
C39_Witness ==
    /\ returned.called
    /\ Len(returned.before) = 2
    /\ world.fail = NoFail
    /\ returned.err # Nil
    /\ Len(nodeGroups) = 1

\* the units of the running scale-up that have sent their result
UnitsDone == {i \in 1..count : tasks[i].pc = "done"}

\* C40: scaleUp always terminates once every remote call of its units has
\* returned: the result channel has capacity count, so no unit's send blocks
\* (a unit about to send finds room in the channel, which holds one result
\* per finished unit), every started scaleUp reaches its return, and the
\* return happens only after all count units have finished, with exactly
\* count results in the channel, one per unit.
C40_ScaleUpTerminates ==
    /\ [](pc = "scaleUp" =>
            /\ Len(errCh) = Cardinality(UnitsDone)
            /\ wg = count - Cardinality(UnitsDone)
            /\ \A i \in 1..count : tasks[i].pc = "send" => Len(errCh) < count)
    /\ [][pc = "scaleUp" /\ pc' = "manager" =>
            /\ UnitsDone = 1..count
            /\ Len(errCh) = count
            /\ \A i \in 1..count : \E k \in 1..Len(errCh) : errCh[k] = tasks[i].err]_vars
    /\ (pc = "scaleUp") ~> (pc = "manager")

\* a scale-up of two units has returned, one of its units having failed
C40_Witness ==
    /\ pc = "manager"
    /\ count = 2
    /\ UnitsDone = 1..2
    /\ suErr # Nil
    /\ \E i \in 1..2 : tasks[i].err = Nil

====
